---- MODULE Spec2Model ----
(***************************************************************************)
(* A model of the AI investment analyzer: the analysis orchestrator of     *)
(* src/ai_analysis.py (class AIAnalyzer), the market-data wrapper of       *)
(* src/stock_data.py and the two Streamlit handlers of src/app.py.         *)
(*                                                                         *)
(* Python values are tagged records, so that a value of any Python type    *)
(* can be stored in one variable and compared with any other:              *)
(*   Null (None), Bool(b), Num(c), Str(s), List(l), Obj(m), Other.         *)
(* Num(c) is the number c/100 (two decimals are kept exactly); Obj(m) is a *)
(* dict, m a function from its keys to values, so a missing key is a key   *)
(* outside DOMAIN m.                                                       *)
(***************************************************************************)
EXTENDS Integers, Sequences, FiniteSets, TLC

VARIABLES
    api_key,        \* the OPENAI_API_KEY of the process environment
    session,        \* st.session_state: stock_data, analysis_data, k401
    pc,             \* position of the running handler / invocation
    caller,         \* "app": a Streamlit handler runs; "api": a direct call
    call,           \* arguments and locals of the running or last invocation
    llm_calls,      \* the chat.completions.create calls issued by it, in
                    \* order: [stage, how, decoded, truthy], how the kind of
                    \* answer it got, decoded and truthy the type and the
                    \* truth value of the value it carried
    result,         \* outcome of the last finished invocation, Null while
                    \* one runs: [method, out], out a Return or a Raise
    error,          \* message of the st.error / RuntimeError last shown
    clock,          \* datetime.now(), in ticks
    analyzer        \* the AIAnalyzer instance in use, Null when there is none

vars == <<api_key, session, pc, caller, call, llm_calls, result, error, clock,
          analyzer>>

-----------------------------------------------------------------------------
(* Python values *)

Null == [t |-> "null"]
Other == [t |-> "other"]
Bool(b) == [t |-> "bool", b |-> b]
Num(c) == [t |-> "num", c |-> c]
Str(s) == [t |-> "str", s |-> s]
List(l) == [t |-> "list", l |-> l]
Obj(m) == [t |-> "obj", m |-> m]
\* a str whose characters matter, as the sequence of its code points
Chars(cp) == [t |-> "chars", cp |-> cp]
\* the str datetime.now().isoformat() gives at tick n
Timestamp(n) == [t |-> "time", at |-> n]

EmptyMap == [k \in {} |-> Null]
EmptyDict == Obj(EmptyMap)
EmptyList == List(<<>>)

\* Num(Whole(n)) is the integer n
Whole(n) == n * 100

IsObj(v) == v.t = "obj"
IsStr(v) == v.t = "str"
IsList(v) == v.t = "list"
\* bool is a subclass of int: True and False take part in arithmetic
IsNumber(v) == v.t \in {"num", "bool"}
Centi(v) == IF v.t = "bool" THEN (IF v.b THEN 100 ELSE 0) ELSE v.c

\* bool(v): the truth value Python gives v in `if v:` and `not v`
Truthy(v) ==
    CASE v.t = "null" -> FALSE
      [] v.t = "bool" -> v.b
      [] v.t = "num" -> v.c # 0
      [] v.t = "str" -> v.s # ""
      [] v.t = "chars" -> v.cp # <<>>
      [] v.t = "list" -> v.l # <<>>
      [] v.t = "obj" -> DOMAIN v.m # {}
      [] OTHER -> TRUE

\* d.get(k, default) on a dict d
Get(d, k, default) == IF k \in DOMAIN d.m THEN d.m[k] ELSE default

\* len(v) is defined for str, list and dict; TypeError otherwise
HasLen(v) == v.t \in {"str", "chars", "list", "obj"}
PyLen(v) ==
    CASE v.t = "str" -> Len(v.s)
      [] v.t = "chars" -> Len(v.cp)
      [] v.t = "list" -> Len(v.l)
      [] v.t = "obj" -> Cardinality(DOMAIN v.m)

Min(a, b) == IF a <= b THEN a ELSE b
Max(a, b) == IF a >= b THEN a ELSE b

-----------------------------------------------------------------------------
(* sanitize_text.  A str is the sequence of its code points.               *)

EmDash == 8212
EnDash == 8211
MaxAscii == 127
Backslash == 92
Acute == 769                \* U+0301 combining acute accent
Ellipsis == 8230
NoBreakSpace == 160

\* the full (canonical and compatibility) decomposition of a code point, for
\* the code points that have one among those considered: e-acute, fullwidth
\* A, the ligature fi, the ellipsis, the no-break space and the small em dash
Decomposition(c) ==
    CASE c = 233 -> <<101, Acute>>
      [] c = 65313 -> <<65>>
      [] c = 64257 -> <<102, 105>>
      [] c = Ellipsis -> <<46, 46, 46>>
      [] c = NoBreakSpace -> <<32>>
      [] c = 65112 -> <<EmDash>>
      [] OTHER -> <<c>>

\* the canonical composition of a letter and a following acute accent
Composable == {101, 65, 105}
Composite(c) == CASE c = 101 -> 233 [] c = 65 -> 193 [] c = 105 -> 237

RECURSIVE Decomposed(_), Compose(_), Replaced(_), Escaped(_), EscapedWithBackslash(_)

\* The passes over a text work on its two halves, so that a text of a
\* thousand characters is handled in ten levels of recursion.
Left(cp, h) == SubSeq(cp, 1, h)
Right(cp, h) == SubSeq(cp, h + 1, Len(cp))

\* every code point of cp decomposed
Decomposed(cp) ==
    IF cp = <<>> THEN <<>>
    ELSE IF Len(cp) = 1 THEN Decomposition(cp[1])
    ELSE LET h == Len(cp) \div 2 IN
         Decomposed(Left(cp, h)) \o Decomposed(Right(cp, h))

\* a letter and the accent that follows it are kept in the same half
Compose(cp) ==
    IF Len(cp) < 2 THEN cp
    ELSE IF Len(cp) = 2
    THEN IF cp[2] = Acute /\ cp[1] \in Composable THEN <<Composite(cp[1])>> ELSE cp
    ELSE LET m == Len(cp) \div 2
             h == IF cp[m + 1] = Acute THEN m + 1 ELSE m
         IN  Compose(Left(cp, h)) \o Compose(Right(cp, h))

\* unicodedata.normalize('NFKC', s)
NFKC(cp) == Compose(Decomposed(cp))

\* the table of lines 30-39
Replacement(c) ==
    CASE c = EmDash -> <<45>>
      [] c = EnDash -> <<45>>
      [] c = 8216 -> <<39>>
      [] c = 8217 -> <<39>>
      [] c = 8220 -> <<34>>
      [] c = 8221 -> <<34>>
      [] c = Ellipsis -> <<46, 46, 46>>
      [] c = NoBreakSpace -> <<32>>
      [] OTHER -> <<c>>

\* lines 41-42: s.replace for each entry of the table
Replaced(cp) ==
    IF cp = <<>> THEN <<>>
    ELSE IF Len(cp) = 1 THEN Replacement(cp[1])
    ELSE LET h == Len(cp) \div 2 IN
         Replaced(Left(cp, h)) \o Replaced(Right(cp, h))

\* the lowercase hexadecimal digits of n, width of them
RECURSIVE Hex(_, _)
HexDigit(d) == IF d < 10 THEN 48 + d ELSE 87 + d
Hex(n, width) ==
    IF width = 0 THEN <<>> ELSE Append(Hex(n \div 16, width - 1), HexDigit(n % 16))

\* encode('ascii', 'backslashreplace') of one code point: \xNN, \uNNNN or
\* \UNNNNNNNN
BackslashReplace(c) ==
    IF c <= MaxAscii THEN <<c>>
    ELSE IF c < 256 THEN <<Backslash, 120>> \o Hex(c, 2)
    ELSE IF c < 65536 THEN <<Backslash, 117>> \o Hex(c, 4)
    ELSE <<Backslash, 85>> \o Hex(c, 8)

\* the text of a value whose characters are not followed one by one: it is
\* ASCII (the str values written Str(s), numbers, lists of them), and stands
\* as the one character x
AsciiText == <<120>>

\* s.encode('ascii', 'backslashreplace').decode('ascii')
Escaped(cp) ==
    IF cp = <<>> THEN <<>>
    ELSE IF Len(cp) = 1 THEN BackslashReplace(cp[1])
    ELSE LET h == Len(cp) \div 2 IN
         Escaped(Left(cp, h)) \o Escaped(Right(cp, h))

\* str(s): of a str its characters, of a one-digit int its digit, True
PyStr(v) ==
    CASE v.t = "chars" -> v.cp
      [] v.t = "num" /\ v.c \in {Whole(d) : d \in 0..9} -> <<48 + v.c \div 100>>
      [] v.t = "bool" /\ v.b -> <<84, 114, 117, 101>>
      [] OTHER -> AsciiText

\* (mutant) a final pass that drops what it cannot encode
sanitize_text_ignore(s) ==
    IF ~Truthy(s) THEN Chars(<<>>)
    ELSE LET Encodable(c) == c <= MaxAscii IN
         Chars(SelectSeq(Replaced(NFKC(PyStr(s))), Encodable))

EscapedWithBackslash(cp) ==
    IF cp = <<>> THEN <<>>
    ELSE IF Len(cp) = 1
    THEN IF cp[1] = Backslash THEN <<Backslash, Backslash>> ELSE BackslashReplace(cp[1])
    ELSE LET h == Len(cp) \div 2 IN
         EscapedWithBackslash(Left(cp, h)) \o EscapedWithBackslash(Right(cp, h))

\* (mutant) a final pass that escapes the backslash as well
sanitize_text_escape_backslash(s) ==
    IF ~Truthy(s) THEN Chars(<<>>)
    ELSE Chars(EscapedWithBackslash(Replaced(NFKC(PyStr(s)))))

sanitize_text(s) ==
    IF ~Truthy(s) THEN Chars(<<>>)
    ELSE Chars(Escaped(Replaced(NFKC(PyStr(s)))))

-----------------------------------------------------------------------------
(* The LLM collaborator's answer and json.loads.                           *)
(* The text of a message is a sequence of JSON tokens: the punctuation     *)
(* tokens, "ws" (whitespace), the literals, string tokens, number tokens   *)
(* "bignum" (an integer literal of more digits than int() converts, 4300)  *)
(* and "bad" (anything that is no JSON token).                             *)

T(k) == [k |-> k]
TS(s) == [k |-> "str", s |-> s]
TN(c) == [k |-> "num", c |-> c]
Text(toks) == [t |-> "text", toks |-> toks]

\* json.JSONDecodeError, and the plain ValueError int() raises for a literal
\* over the digit limit, which is no JSONDecodeError
DecodeError == [ok |-> FALSE, e |-> "JSONDecodeError"]
IntLimitError == [ok |-> FALSE, e |-> "ValueError"]
Decoded(v, i) == [ok |-> TRUE, v |-> v, i |-> i]

RECURSIVE ParseValue(_, _), ParseMembers(_, _, _), ParseElements(_, _, _)

\* json.loads on the tokens from position i: one JSON value
ParseValue(toks, i) ==
    IF i > Len(toks) THEN DecodeError
    ELSE LET tk == toks[i] IN
        CASE tk.k = "str" -> Decoded(Str(tk.s), i + 1)
          [] tk.k = "num" -> Decoded(Num(tk.c), i + 1)
          [] tk.k = "true" -> Decoded(Bool(TRUE), i + 1)
          [] tk.k = "false" -> Decoded(Bool(FALSE), i + 1)
          [] tk.k = "null" -> Decoded(Null, i + 1)
          [] tk.k = "bignum" -> IntLimitError
          [] tk.k = "{" ->
                IF i + 1 <= Len(toks) /\ toks[i + 1].k = "}"
                THEN Decoded(EmptyDict, i + 2)
                ELSE ParseMembers(toks, i + 1, EmptyMap)
          [] tk.k = "[" ->
                IF i + 1 <= Len(toks) /\ toks[i + 1].k = "]"
                THEN Decoded(EmptyList, i + 2)
                ELSE ParseElements(toks, i + 1, <<>>)
          [] OTHER -> DecodeError

\* the members of an object after "{" or ",": "key" : value, a later key
\* replacing an earlier equal one
ParseMembers(toks, i, acc) ==
    IF i + 1 > Len(toks) THEN DecodeError
    ELSE IF toks[i].k # "str" \/ toks[i + 1].k # ":" THEN DecodeError
    ELSE LET r == ParseValue(toks, i + 2) IN
        IF ~r.ok THEN r
        ELSE IF r.i > Len(toks) THEN DecodeError
        ELSE LET key == toks[i].s
                 acc2 == [k \in DOMAIN acc \cup {key} |->
                             IF k = key THEN r.v ELSE acc[k]]
             IN  CASE toks[r.i].k = "}" -> Decoded(Obj(acc2), r.i + 1)
                   [] toks[r.i].k = "," -> ParseMembers(toks, r.i + 1, acc2)
                   [] OTHER -> DecodeError

\* the elements of an array after "[" or ","
ParseElements(toks, i, acc) ==
    LET r == ParseValue(toks, i) IN
        IF ~r.ok THEN r
        ELSE IF r.i > Len(toks) THEN DecodeError
        ELSE CASE toks[r.i].k = "]" -> Decoded(List(Append(acc, r.v)), r.i + 1)
               [] toks[r.i].k = "," -> ParseElements(toks, r.i + 1, Append(acc, r.v))
               [] OTHER -> DecodeError

NotSpace(tk) == tk.k # "ws"

\* json.loads(content): whitespace between tokens is skipped, the text must
\* hold exactly one value
json_loads(toks) ==
    LET ts == SelectSeq(toks, NotSpace)
        r == ParseValue(ts, 1)
    IN  IF ~r.ok THEN r
        ELSE IF r.i = Len(ts) + 1 THEN r ELSE DecodeError

\* content.strip() is non-empty
NotBlank(toks) == SelectSeq(toks, NotSpace) # <<>>

\* What a call of chat.completions.create does: it raises, or it returns a
\* response with n_choices choices whose first message has .parsed and
\* .content (Null where the attribute is None or absent)
Raises == [kind |-> "raise"]
Response(parsed, content) ==
    [kind |-> "resp", n_choices |-> 1, parsed |-> parsed, content |-> content]
NoChoices == [kind |-> "resp", n_choices |-> 0, parsed |-> Null, content |-> Null]

\* The outcome of a Python call: a returned value or a raised exception
Return(v) == [exc |-> FALSE, v |-> v]
Raise(e) == [exc |-> TRUE, e |-> e]

parse_openai_json(response) ==
    IF response.n_choices = 0 THEN Raise("IndexError")
    ELSE IF response.parsed # Null THEN Return(response.parsed)
    ELSE IF response.content.t = "text" /\ NotBlank(response.content.toks)
         THEN LET r == json_loads(response.content.toks) IN
                 IF r.ok THEN Return(r.v)
                 ELSE IF r.e = "JSONDecodeError" THEN Return(EmptyDict)
                 ELSE Raise(r.e)
    ELSE Return(EmptyDict)

-----------------------------------------------------------------------------
(* AIAnalyzer.__init__ *)

NotSetError == "OPENAI_API_KEY is not set"
DashError == "OPENAI_API_KEY contains em-dash or en-dash characters that break HTTP headers."
NonAsciiError == "OPENAI_API_KEY contains non-ASCII characters that break HTTP headers."

\* s.encode('ascii') raises UnicodeEncodeError
EncodeAsciiFails(cp) == \E i \in 1..Len(cp) : cp[i] > MaxAscii
Contains(cp, c) == \E i \in 1..Len(cp) : cp[i] = c

NewAnalyzer == [openai_client |-> TRUE, model |-> "gpt-5"]

\* (mutant) the test of line 70 looks for the em dash alone
AIAnalyzer_init_em_only(key) ==
    IF ~Truthy(key) THEN Raise(NotSetError)
    ELSE IF EncodeAsciiFails(key.cp)
         THEN IF Contains(key.cp, EmDash)
              THEN Raise(DashError)
              ELSE Raise(NonAsciiError)
    ELSE Return(NewAnalyzer)

\* AIAnalyzer(): the instance, or the RuntimeError raised; key is
\* os.getenv("OPENAI_API_KEY")
AIAnalyzer_init(key) ==
    IF ~Truthy(key) THEN Raise(NotSetError)
    ELSE IF EncodeAsciiFails(key.cp)
         THEN IF Contains(key.cp, EmDash) \/ Contains(key.cp, EnDash)
              THEN Raise(DashError)
              ELSE Raise(NonAsciiError)
    ELSE Return(NewAnalyzer)

-----------------------------------------------------------------------------
(* The stock-mode pipeline of AIAnalyzer *)

prepare_company_context(symbol, company_info) ==
    IF ~IsObj(company_info) THEN Raise("AttributeError")
    ELSE Return(Obj([
        symbol |-> symbol,
        name |-> Get(company_info, "longName", Str("Unknown")),
        sector |-> Get(company_info, "sector", Str("Unknown")),
        industry |-> Get(company_info, "industry", Str("Unknown")),
        business_summary |-> Get(company_info, "longBusinessSummary", Str("")),
        market_cap |-> Get(company_info, "marketCap", Num(0)),
        employees |-> Get(company_info, "fullTimeEmployees", Num(0)),
        revenue |-> Get(company_info, "totalRevenue", Num(0)),
        website |-> Get(company_info, "website", Str("")),
        country |-> Get(company_info, "country", Str("Unknown"))]))

\* What a stage returns, and whether it issued its LLM call
Stage(v, called) == [v |-> v, called |-> called]

\* The prompts.  The fixed text of a template is ASCII and stands as one
\* line feed; the interpolated values follow in the order of the f-string.
TemplateText == <<10>>
SummaryLimit == 1000
Prefix(cp, n) == SubSeq(cp, 1, Min(n, Len(cp)))

RECURSIVE JoinStr(_)
\* str(x) for x in the list l, joined
JoinStr(l) == IF l = <<>> THEN <<>> ELSE PyStr(Head(l)) \o JoinStr(Tail(l))
\* the items of a strategy field, all of them or the first n
ItemsText(v, n) == IF v.t = "list" THEN JoinStr(Prefix(v.l, n)) ELSE AsciiText

\* (mutant) the summary cut to its first 1000 characters before it is
\* sanitized
strategy_prompt_cut_raw(ctx) ==
    LET company_name == sanitize_text(Get(ctx, "name", Str("Unknown"))).cp
        sector == sanitize_text(ctx.m.sector).cp
        industry == sanitize_text(ctx.m.industry).cp
        business_summary ==
            sanitize_text(Chars(Prefix(PyStr(Get(ctx, "business_summary", Str(""))),
                                       SummaryLimit))).cp
    IN  sanitize_text(Chars(
            TemplateText \o company_name \o PyStr(ctx.m.symbol) \o sector \o industry
            \o business_summary \o PyStr(ctx.m.market_cap) \o PyStr(ctx.m.employees)
            \o TemplateText))

\* lines 369-408
strategy_prompt(ctx) ==
    LET company_name == sanitize_text(Get(ctx, "name", Str("Unknown"))).cp
        sector == sanitize_text(ctx.m.sector).cp
        industry == sanitize_text(ctx.m.industry).cp
        business_summary ==
            Prefix(sanitize_text(Get(ctx, "business_summary", Str(""))).cp, SummaryLimit)
    IN  sanitize_text(Chars(
            TemplateText \o company_name \o PyStr(ctx.m.symbol) \o sector \o industry
            \o business_summary \o PyStr(ctx.m.market_cap) \o PyStr(ctx.m.employees)
            \o TemplateText))

\* lines 450-485
recommendation_prompt(ctx, ai_strategy) ==
    LET company_name == sanitize_text(ctx.m.name).cp
        sector == sanitize_text(ctx.m.sector).cp
        industry == sanitize_text(ctx.m.industry).cp
    IN  sanitize_text(Chars(
            TemplateText \o company_name \o PyStr(ctx.m.symbol) \o sector \o industry
            \o PyStr(ctx.m.market_cap)
            \o PyStr(Get(ai_strategy, "ai_maturity_score", Num(Whole(5))))
            \o ItemsText(Get(ai_strategy, "ai_initiatives", EmptyList), 3)
            \o ItemsText(Get(ai_strategy, "competitive_advantages", EmptyList), 3)
            \o ItemsText(Get(ai_strategy, "opportunities", EmptyList), 3)
            \o TemplateText))

\* lines 554-582
story_prompt(ctx, ai_strategy) ==
    LET company_name == sanitize_text(ctx.m.name).cp
        All(k) == LET v == Get(ai_strategy, k, EmptyList) IN ItemsText(v, PyLen(v))
    IN  sanitize_text(Chars(
            TemplateText \o company_name \o PyStr(ctx.m.symbol)
            \o All("ai_initiatives") \o All("competitive_advantages")
            \o All("opportunities") \o All("revenue_streams") \o TemplateText))

\* lines 165-224: the f-string is what is sent
benefits_401k_prompt(company_name) ==
    Chars(TemplateText \o PyStr(company_name) \o TemplateText)

\* (mutant) the fallback of line 435 with another default score
StrategyFallback_score0 == Obj([
    ai_initiatives |-> EmptyList,
    competitive_advantages |-> EmptyList,
    revenue_streams |-> EmptyList,
    partnerships |-> EmptyList,
    opportunities |-> EmptyList,
    risks |-> EmptyList,
    ai_maturity_score |-> Num(0),
    overall_assessment |-> Str("Unable to complete AI analysis at this time.")])

StrategyFallback == Obj([
    ai_initiatives |-> EmptyList,
    competitive_advantages |-> EmptyList,
    revenue_streams |-> EmptyList,
    partnerships |-> EmptyList,
    opportunities |-> EmptyList,
    risks |-> EmptyList,
    ai_maturity_score |-> Num(Whole(5)),
    overall_assessment |-> Str("Unable to complete AI analysis at this time.")])

\* x/1e9 and format(x, ',') raise TypeError or ValueError unless x is a number
StrategyPromptRaises(ctx) ==
    \/ ~IsNumber(ctx.m.market_cap)
    \/ ~IsNumber(ctx.m.employees)

\* (mutant) a stage that does not log the length of the result
analyze_ai_strategy_no_len(ctx, llm) ==
    IF StrategyPromptRaises(ctx) THEN Stage(StrategyFallback, FALSE)
    ELSE IF llm.kind = "raise" THEN Stage(StrategyFallback, TRUE)
    ELSE LET r == parse_openai_json(llm) IN
        IF r.exc THEN Stage(StrategyFallback, TRUE)
        ELSE IF Truthy(r.v) THEN Stage(r.v, TRUE)
        ELSE Stage(EmptyDict, TRUE)

analyze_ai_strategy(ctx, llm) ==
    IF StrategyPromptRaises(ctx) THEN Stage(StrategyFallback, FALSE)
    ELSE IF llm.kind = "raise" THEN Stage(StrategyFallback, TRUE)
    ELSE LET r == parse_openai_json(llm) IN
        IF r.exc THEN Stage(StrategyFallback, TRUE)
        \* line 427 logs len(result): TypeError for a number or a bool
        ELSE IF Truthy(r.v) /\ ~HasLen(r.v) THEN Stage(StrategyFallback, TRUE)
        ELSE IF Truthy(r.v) THEN Stage(r.v, TRUE)
        ELSE Stage(EmptyDict, TRUE)

RecommendationFallback == Obj([
    action |-> Str("HOLD"),
    ai_score |-> Num(Whole(5)),
    reasoning |-> Str("Unable to complete investment analysis at this time."),
    key_catalysts |-> EmptyList,
    risk_factors |-> EmptyList])

\* v[:3] is defined for the sequence types only
Sliceable(v) == v.t \in {"str", "chars", "list"}
\* `for x in v` is defined for the sequence types and dict
Iterable(v) == v.t \in {"str", "chars", "list", "obj"}

RecommendationPromptRaises(ctx, ai_strategy) ==
    \/ ~IsNumber(ctx.m.market_cap)
    \/ ~IsObj(ai_strategy)
    \/ \E k \in {"ai_initiatives", "competitive_advantages", "opportunities"} :
          ~Sliceable(Get(ai_strategy, k, EmptyList))

get_investment_recommendation(ctx, ai_strategy, llm) ==
    IF RecommendationPromptRaises(ctx, ai_strategy)
    THEN Stage(RecommendationFallback, FALSE)
    ELSE IF llm.kind = "raise" THEN Stage(RecommendationFallback, TRUE)
    ELSE LET r == parse_openai_json(llm) IN
        IF r.exc THEN Stage(RecommendationFallback, TRUE)
        ELSE Stage(r.v, TRUE)

StoryFallback == Obj([
    strategy_summary |-> Str("AI strategy analysis not available at this time."),
    use_cases |-> EmptyList,
    opportunities |-> EmptyList,
    competitive_advantages |-> EmptyList])

StoryPromptRaises(ai_strategy) ==
    \/ ~IsObj(ai_strategy)
    \/ \E k \in {"ai_initiatives", "competitive_advantages", "opportunities",
                 "revenue_streams"} :
          ~Iterable(Get(ai_strategy, k, EmptyList))

generate_ai_story(ctx, ai_strategy, llm) ==
    IF StoryPromptRaises(ai_strategy) THEN Stage(StoryFallback, FALSE)
    ELSE IF llm.kind = "raise" THEN Stage(StoryFallback, TRUE)
    ELSE LET r == parse_openai_json(llm) IN
        IF r.exc THEN Stage(StoryFallback, TRUE)
        ELSE Stage(r.v, TRUE)

\* sector_ai_multipliers.get(sector, 0.8), in tenths
DefaultMultiplier == 8

\* (mutant) the lookup of line 526 with the default 1.0
SectorMultiplier_default1(sector) ==
    CASE sector = Str("Technology") -> 15
      [] sector = Str("Communication Services") -> 12
      [] sector = Str("Consumer Cyclical") -> 10
      [] sector = Str("Healthcare") -> 11
      [] sector = Str("Financial Services") -> 11
      [] sector = Str("Industrials") -> 8
      [] sector = Str("Consumer Defensive") -> 7
      [] OTHER -> 10

SectorMultiplier(sector) ==
    CASE sector = Str("Technology") -> 15
      [] sector = Str("Communication Services") -> 12
      [] sector = Str("Consumer Cyclical") -> 10
      [] sector = Str("Healthcare") -> 11
      [] sector = Str("Financial Services") -> 11
      [] sector = Str("Industrials") -> 8
      [] sector = Str("Consumer Defensive") -> 7
      [] OTHER -> DefaultMultiplier

\* dict.get(key) hashes the key: TypeError for a list or a dict
Hashable(v) == v.t \notin {"list", "obj"}

\* round(x, 1) of x = m/1000, in tenths (ties to even)
RoundTenths(m) ==
    LET q == m \div 100
        r == m % 100
    IN  IF r < 50 THEN q
        ELSE IF r > 50 THEN q + 1
        ELSE IF q % 2 = 0 THEN q ELSE q + 1

\* int(x) of x = c/10: truncation towards zero
Trunc10(c) == IF c >= 0 THEN c \div 10 ELSE -((-c) \div 10)

MetricsFallback == Obj([
    ai_revenue_exposure |-> Num(0),
    ai_partnerships |-> Num(0),
    ai_patents |-> Num(0),
    ai_investment_score |-> Num(Whole(5))])

MetricsRaises(ctx, ai_strategy) ==
    \/ ~IsObj(ai_strategy)
    \/ ~Hashable(ctx.m.sector)
    \/ ~HasLen(Get(ai_strategy, "ai_initiatives", EmptyList))
    \/ ~IsNumber(Get(ai_strategy, "ai_maturity_score", Num(Whole(5))))
    \/ ~HasLen(Get(ai_strategy, "partnerships", EmptyList))

\* (mutant) line 528 without the cap min(100, ...)
calculate_ai_metrics_uncapped(ctx, ai_strategy) ==
    IF MetricsRaises(ctx, ai_strategy) THEN MetricsFallback
    ELSE LET ai_score == Get(ai_strategy, "ai_maturity_score", Num(Whole(5)))
             base_exposure == SectorMultiplier(ctx.m.sector)
             ai_initiatives_count == PyLen(Get(ai_strategy, "ai_initiatives", EmptyList))
             estimated_ai_exposure ==
                 (base_exposure * Centi(ai_score) * 2) + (ai_initiatives_count * 5 * 1000)
             partnerships == PyLen(Get(ai_strategy, "partnerships", EmptyList))
             estimated_patents == Max(0, Trunc10(Centi(ai_score)) + (partnerships * 5))
         IN  Obj([
                ai_revenue_exposure |-> Num(RoundTenths(estimated_ai_exposure) * 10),
                ai_partnerships |-> Num(Whole(partnerships)),
                ai_patents |-> Num(Whole(estimated_patents)),
                ai_investment_score |-> ai_score])

\* (mutant) a derivation that also looks at the market capitalisation
calculate_ai_metrics_by_market_cap(ctx, ai_strategy) ==
    IF ~Truthy(ctx.m.market_cap) THEN MetricsFallback
    ELSE calculate_ai_metrics_uncapped(ctx, ai_strategy)

calculate_ai_metrics(ctx, ai_strategy) ==
    IF MetricsRaises(ctx, ai_strategy) THEN MetricsFallback
    ELSE LET ai_score == Get(ai_strategy, "ai_maturity_score", Num(Whole(5)))
             base_exposure == SectorMultiplier(ctx.m.sector)
             ai_initiatives_count == PyLen(Get(ai_strategy, "ai_initiatives", EmptyList))
             \* in thousandths: (tenths * hundredths * 2) + count * 5
             estimated_ai_exposure ==
                 Min(100 * 1000,
                     (base_exposure * Centi(ai_score) * 2) + (ai_initiatives_count * 5 * 1000))
             partnerships == PyLen(Get(ai_strategy, "partnerships", EmptyList))
             estimated_patents == Max(0, Trunc10(Centi(ai_score)) + (partnerships * 5))
         IN  Obj([
                ai_revenue_exposure |-> Num(RoundTenths(estimated_ai_exposure) * 10),
                ai_partnerships |-> Num(Whole(partnerships)),
                ai_patents |-> Num(Whole(estimated_patents)),
                ai_investment_score |-> ai_score])

\* (mutant) a default document whose metrics carry the score 0
get_default_analysis_score0(now) == [
    investment_recommendation |-> Obj([
        action |-> Str("HOLD"),
        ai_score |-> Num(Whole(5)),
        reasoning |-> Str("AI analysis not available at this time."),
        key_catalysts |-> EmptyList,
        risk_factors |-> EmptyList]),
    ai_metrics |-> Obj([
        ai_revenue_exposure |-> Num(0),
        ai_partnerships |-> Num(0),
        ai_patents |-> Num(0),
        ai_investment_score |-> Num(0)]),
    ai_story |-> Obj([
        strategy_summary |-> Str("AI analysis not available."),
        use_cases |-> EmptyList,
        opportunities |-> EmptyList,
        competitive_advantages |-> EmptyList]),
    analysis_timestamp |-> Timestamp(now)]

\* _get_default_analysis() at tick now
get_default_analysis(now) == [
    investment_recommendation |-> Obj([
        action |-> Str("HOLD"),
        ai_score |-> Num(Whole(5)),
        reasoning |-> Str("AI analysis not available at this time."),
        key_catalysts |-> EmptyList,
        risk_factors |-> EmptyList]),
    ai_metrics |-> Obj([
        ai_revenue_exposure |-> Num(0),
        ai_partnerships |-> Num(0),
        ai_patents |-> Num(0),
        ai_investment_score |-> Num(Whole(5))]),
    ai_story |-> Obj([
        strategy_summary |-> Str("AI analysis not available."),
        use_cases |-> EmptyList,
        opportunities |-> EmptyList,
        competitive_advantages |-> EmptyList]),
    analysis_timestamp |-> Timestamp(now)]

\* the dict analyze_ai_potential returns at line 117
AnalysisResult(investment_recommendation, ai_metrics, ai_story, now) == [
    investment_recommendation |-> investment_recommendation,
    ai_metrics |-> ai_metrics,
    ai_story |-> ai_story,
    analysis_timestamp |-> Timestamp(now)]

\* (mutant) no handler at line 124: the exception leaves the method
critical_error_reraise(e, now) == Raise(e)

\* the handler of lines 124-128: what analyze_ai_potential does with an
\* exception e raised inside its try block
critical_error(e, now) == Return(get_default_analysis(now))

-----------------------------------------------------------------------------
(* The 401k mode of AIAnalyzer *)

Strs(seq) == List([i \in DOMAIN seq |-> Str(seq[i])])

Default401kOverview == Obj([
    match_percentage |-> Num(0),
    max_match_salary_percent |-> Num(0),
    vesting_period |-> Str("Unknown"),
    roth_available |-> Bool(FALSE),
    company_size |-> Str("Unknown"),
    industry_rating |-> Str("Unknown")])

get_default_401k_analysis(now) == [
    overview |-> Default401kOverview,
    recommendation |-> Obj([
        optimization_score |-> Num(Whole(5)),
        primary_advice |-> Str("401K analysis not available at this time."),
        key_actions |-> EmptyList,
        urgency_level |-> Str("medium")]),
    contribution_strategy |-> Obj([
        recommended_contribution_percent |-> Num(Whole(10)),
        annual_savings_potential |-> Str("Not calculated"),
        tax_optimization |-> Str("Consult with financial advisor"),
        recommended_actions |-> Strs(<<"Contribute enough to get company match">>)]),
    roth_analysis |-> Obj([
        recommendation |-> Str("Traditional"),
        reasoning |-> Str("Analysis not available"),
        age_considerations |-> Str("Consider your current tax bracket"),
        tax_bracket_impact |-> Str("Consult tax professional")]),
    fund_options |-> Obj([
        fund_categories |-> EmptyList,
        recommended_funds |-> EmptyList,
        expense_ratio_analysis |-> Str("Unknown"),
        diversification_advice |-> Str("Diversify investments across asset classes")]),
    additional_benefits |-> Obj([
        other_benefits |-> EmptyList,
        financial_wellness_perks |-> EmptyList,
        catch_up_contributions |-> Str("Check if available for 50+"),
        loan_provisions |-> Str("Check plan details")]),
    analysis_timestamp |-> Timestamp(now)]

get_default_401k_benefits == Obj([
    overview |-> Default401kOverview,
    recommendation |-> Obj([
        optimization_score |-> Num(Whole(5)),
        primary_advice |-> Str("401K analysis temporarily unavailable."),
        key_actions |-> Strs(<<"Contribute at least enough to get company match",
                               "Review plan documents">>),
        urgency_level |-> Str("medium")]),
    contribution_strategy |-> Obj([
        recommended_contribution_percent |-> Num(Whole(10)),
        annual_savings_potential |-> Str("Not calculated"),
        tax_optimization |-> Str("Standard tax-deferred benefits apply"),
        recommended_actions |-> Strs(<<"Start with company match",
                                       "Increase contributions annually">>)]),
    roth_analysis |-> Obj([
        recommendation |-> Str("Traditional"),
        reasoning |-> Str("Default recommendation for tax-deferred savings"),
        age_considerations |-> Str("Younger employees may benefit from Roth options"),
        tax_bracket_impact |-> Str("Consider current vs expected future tax rates")]),
    fund_options |-> Obj([
        fund_categories |-> Strs(<<"Target Date Funds", "Index Funds", "Bond Funds">>),
        recommended_funds |-> Strs(<<"Low-cost index funds",
                                     "Target-date funds for simplicity">>),
        expense_ratio_analysis |-> Str("Look for funds with expense ratios under 0.5%"),
        diversification_advice |-> Str("Mix of stocks, bonds, and international exposure")]),
    additional_benefits |-> Obj([
        other_benefits |-> Strs(<<"Standard 401k benefits">>),
        financial_wellness_perks |-> Strs(<<"Online planning tools">>),
        catch_up_contributions |-> Str("Available for employees 50 and older"),
        loan_provisions |-> Str("Check with HR for loan availability")])])

\* _analyze_401k_benefits: the prompt is an f-string of company_name alone,
\* which formats any value, so the LLM call is always issued
analyze_401k_benefits(company_name, llm) ==
    IF llm.kind = "raise" THEN Stage(get_default_401k_benefits, TRUE)
    ELSE LET r == parse_openai_json(llm) IN
        IF r.exc THEN Stage(get_default_401k_benefits, TRUE)
        ELSE IF Truthy(r.v) THEN Stage(r.v, TRUE)
        ELSE Stage(EmptyDict, TRUE)

\* (mutant) no handler at line 156: the AttributeError leaves the method
company_401k_result_unguarded(analysis_result, now) ==
    IF ~IsObj(analysis_result) THEN Raise("AttributeError")
    ELSE Return([
        overview |-> Get(analysis_result, "overview", EmptyDict),
        recommendation |-> Get(analysis_result, "recommendation", EmptyDict),
        contribution_strategy |-> Get(analysis_result, "contribution_strategy", EmptyDict),
        roth_analysis |-> Get(analysis_result, "roth_analysis", EmptyDict),
        fund_options |-> Get(analysis_result, "fund_options", EmptyDict),
        additional_benefits |-> Get(analysis_result, "additional_benefits", EmptyDict),
        analysis_timestamp |-> Timestamp(now)])

\* analyze_company_401k from line 146 on, given the value analysis_result
\* of _analyze_401k_benefits: .get on a value that is no dict raises
\* AttributeError, which the handler of lines 156-158 turns into the default
company_401k_result(analysis_result, now) ==
    IF ~IsObj(analysis_result) THEN Return(get_default_401k_analysis(now))
    ELSE Return([
        overview |-> Get(analysis_result, "overview", EmptyDict),
        recommendation |-> Get(analysis_result, "recommendation", EmptyDict),
        contribution_strategy |-> Get(analysis_result, "contribution_strategy", EmptyDict),
        roth_analysis |-> Get(analysis_result, "roth_analysis", EmptyDict),
        fund_options |-> Get(analysis_result, "fund_options", EmptyDict),
        additional_benefits |-> Get(analysis_result, "additional_benefits", EmptyDict),
        analysis_timestamp |-> Timestamp(now)])

-----------------------------------------------------------------------------
(* StockDataFetcher.get_stock_data.  What yfinance does for a symbol is a  *)
(* ticker: [raises, info, hist_empty].                                     *)

Ticker(raises, info, hist_empty) ==
    [raises |-> raises, info |-> info, hist_empty |-> hist_empty]

\* (mutant) the history is not looked at (lines 36-37 missing)
get_stock_data_no_history_check(ticker) ==
    IF ticker.raises THEN Null
    ELSE IF ~Truthy(ticker.info) \/ "symbol" \notin DOMAIN ticker.info.m THEN Null
    ELSE Obj([info |-> ticker.info,
              price_data |-> Other,
              quarterly_financials |-> Other,
              balance_sheet |-> Other,
              cash_flow |-> Other])

get_stock_data(ticker) ==
    IF ticker.raises THEN Null
    ELSE IF ~Truthy(ticker.info) \/ "symbol" \notin DOMAIN ticker.info.m THEN Null
    ELSE IF ticker.hist_empty THEN Null
    ELSE Obj([info |-> ticker.info,
              price_data |-> Other,
              quarterly_financials |-> Other,
              balance_sheet |-> Other,
              cash_flow |-> Other])

-----------------------------------------------------------------------------
(* Inputs *)

\* analyses started in one behaviour (each reads the clock once)
MaxClock == 2
\* items a generated list response carries at most
MaxItems == 3

RECURSIVE SetToSeq(_)
SetToSeq(S) ==
    IF S = {} THEN <<>>
    ELSE LET x == CHOOSE y \in S : TRUE IN <<x>> \o SetToSeq(S \ {x})

RECURSIVE JsonText(_), JsonMembers(_, _), JsonElements(_)

\* a JSON text of the value v (what json.dumps(v) writes), as tokens
JsonText(v) ==
    CASE v.t = "str" -> <<TS(v.s)>>
      [] v.t = "num" -> <<TN(v.c)>>
      [] v.t = "bool" -> IF v.b THEN <<T("true")>> ELSE <<T("false")>>
      [] v.t = "null" -> <<T("null")>>
      [] v.t = "list" -> <<T("[")>> \o JsonElements(v.l) \o <<T("]")>>
      [] v.t = "obj" -> <<T("{")>> \o JsonMembers(v.m, SetToSeq(DOMAIN v.m)) \o <<T("}")>>

JsonElements(l) ==
    IF l = <<>> THEN <<>>
    ELSE IF Len(l) = 1 THEN JsonText(l[1])
    ELSE JsonText(l[1]) \o <<T(","), T("ws")>> \o JsonElements(Tail(l))

JsonMembers(m, keys) ==
    IF keys = <<>> THEN <<>>
    ELSE LET one == <<TS(keys[1]), T(":"), T("ws")>> \o JsonText(m[keys[1]]) IN
        IF Len(keys) = 1 THEN one
        ELSE one \o <<T(",")>> \o JsonMembers(m, Tail(keys))

\* the LLM answers with the JSON text of v
Answer(v) == Response(Null, Text(JsonText(v)))

Items(prefix, n) == List([i \in 1..n |-> Str(prefix)])

\* an AI-strategy object with the requested shape
StrategyObject(score, n_initiatives, n_partnerships) == Obj([
    ai_initiatives |-> Items("initiative", n_initiatives),
    competitive_advantages |-> Items("advantage", 1),
    revenue_streams |-> Items("stream", 1),
    partnerships |-> Items("partner", n_partnerships),
    opportunities |-> Items("opportunity", 1),
    risks |-> Items("risk", 1),
    ai_maturity_score |-> Num(score),
    overall_assessment |-> Str("assessment")])

RecommendationObject(action, score) == Obj([
    action |-> Str(action),
    ai_score |-> Num(score),
    reasoning |-> Str("reasoning"),
    key_catalysts |-> Items("catalyst", 1),
    risk_factors |-> Items("risk", 1)])

StoryObject == Obj([
    strategy_summary |-> Str("summary"),
    use_cases |-> Items("use case", 1),
    opportunities |-> Items("opportunity", 1),
    competitive_advantages |-> Items("advantage", 1)])

\* texts that json.loads rejects
MalformedTexts == {
    <<T("{"), TS("action"), T(":")>>,
    <<T("{"), TS("action"), T(":"), TS("BUY"), T(","), T("}")>>,
    <<T("{"), T("}"), T("bad")>>,
    <<T("bad")>>}

\* answers every stage may get that carry no object
EmptyAnswers ==
    {Response(Null, Null), Response(Null, Other), Response(Null, Text(<<>>)),
     Response(Null, Text(<<T("ws"), T("ws")>>)), Answer(EmptyDict)}
    \cup {Response(Null, Text(x)) : x \in MalformedTexts}

NonMappingAnswers ==
    {Answer(Items("x", 1)), Answer(Str("BUY")), Answer(Num(Whole(7))), Answer(Bool(TRUE)),
     Answer(EmptyList), Answer(Str("")), Answer(Num(0))}

StrategyAnswers ==
    {Raises, NoChoices} \cup EmptyAnswers \cup NonMappingAnswers
    \cup {Answer(StrategyObject(Whole(8), MaxItems, 2)),
          Answer(StrategyObject(Whole(15), 1, 0)),
          Answer(StrategyObject(Whole(-3), 0, 1)),
          Answer(StrategyObject(755, 2, 2)),
          Answer(Obj([ai_maturity_score |-> Str("high"), ai_initiatives |-> Null])),
          Response(Obj([ai_maturity_score |-> Num(Whole(9)), partnerships |-> Items("p", 1)]),
                   Null)}

RecommendationAnswers ==
    {Raises, NoChoices} \cup EmptyAnswers \cup {Answer(Str("BUY"))}
    \cup {Answer(RecommendationObject("BUY", Whole(9))),
          Answer(Obj([action |-> Str("SELL")]))}

StoryAnswers ==
    {Raises} \cup EmptyAnswers
    \cup {Answer(StoryObject), Answer(Obj([strategy_summary |-> Str("summary")]))}

\* the third is BRK-B typed with an en dash
Symbols == {Str("AAPL"), Str("MSFT"), Chars(<<66, 82, 75, EnDash, 66>>)}

InfoAAPL == Obj([
    symbol |-> Str("AAPL"),
    longName |-> Str("Apple Inc."),
    sector |-> Str("Technology"),
    industry |-> Str("Consumer Electronics"),
    longBusinessSummary |-> Str("Apple designs smartphones."),
    marketCap |-> Num(Whole(3000000)),
    fullTimeEmployees |-> Num(Whole(164000)),
    totalRevenue |-> Num(Whole(380000)),
    website |-> Str("https://www.apple.com"),
    country |-> Str("United States")])

\* a listing with few fields, as yfinance gives for funds and small caps
InfoSparse == Obj([symbol |-> Str("MSFT"), sector |-> Str("Utilities")])

\* yfinance reports a field it has no value for as None
InfoNoCap == Obj([symbol |-> Str("MSFT"), longName |-> Str("Microsoft"),
                  sector |-> Str("Technology"), marketCap |-> Null])

\* a listing whose texts carry non-ASCII characters: Nestle with e-acute, a
\* summary with an em dash and U+65E5
InfoNestle == Obj([
    symbol |-> Str("NSRGY"),
    longName |-> Chars(<<78, 101, 115, 116, 108, 233>>),
    sector |-> Str("Consumer Defensive"),
    longBusinessSummary |-> Chars(<<102, 111, 111, 100, EmDash, 26085>>),
    marketCap |-> Num(Whole(250000))])

CompanyInfos == {Null, EmptyDict, InfoAAPL, InfoSparse, InfoNoCap, InfoNestle,
                 Obj([sector |-> Items("Technology", 1)])}

\* the character c, n times
Repeat(c, n) == [i \in 1..n |-> c]

\* a listing whose business summary is the given value
SummaryInfo(summary) == Obj([
    symbol |-> Str("NSRGY"),
    longName |-> Chars(<<78, 101, 115, 116, 108, 233>>),
    sector |-> Str("Consumer Defensive"),
    longBusinessSummary |-> summary,
    marketCap |-> Num(Whole(5)),
    fullTimeEmployees |-> Num(Whole(9))])

\* summaries around the limit of 1000 characters: ASCII texts of 1000 and
\* 1001 characters; texts that are shorter than the limit and longer once
\* sanitized (167 times U+65E5, 334 ellipses); texts whose character 1000 or
\* 999 becomes an escape; short, empty, None and numeric summaries
SummaryInfos ==
    {SummaryInfo(Chars(cp)) : cp \in {
        Repeat(97, SummaryLimit),
        Repeat(97, SummaryLimit + 1),
        Repeat(26085, 167),
        Repeat(Ellipsis, 334),
        Repeat(97, SummaryLimit - 1) \o <<26085>>,
        Repeat(97, SummaryLimit - 2) \o <<101, Acute, 97>>,
        Repeat(97, SummaryLimit - 3) \o <<EmDash, NoBreakSpace, 65313, 128512>>,
        <<102, 111, 111, 100, EmDash, 26085>>,
        <<>>}}
    \cup {SummaryInfo(Null), SummaryInfo(Num(Whole(7))), InfoSparse, InfoNoCap}

\* code points a credential is made of: k, hyphen-minus, em dash, en dash,
\* U+65E5
KeyAlphabet == {107, 45, EmDash, EnDash, 26085}
MaxKeyLen == 3
AllKeys ==
    {Null} \cup UNION {{Chars(cp) : cp \in [1..n -> KeyAlphabet]} : n \in 0..MaxKeyLen}
ValidKey == Chars(<<107, 107>>)

\* the third is Nestle with e-acute
CompanyNames == {Str("Microsoft"), Str("Acme"), Chars(<<78, 101, 115, 116, 108, 233>>)}

Benefits401kObject == Obj([
    overview |-> Obj([match_percentage |-> Num(Whole(50)),
                      vesting_period |-> Str("2 years"),
                      roth_available |-> Bool(TRUE)]),
    recommendation |-> Obj([optimization_score |-> Num(Whole(8))]),
    contribution_strategy |-> Obj([recommended_contribution_percent |-> Num(Whole(15))]),
    roth_analysis |-> Obj([recommendation |-> Str("Roth")]),
    fund_options |-> Obj([fund_categories |-> Items("Large Cap", 1)]),
    additional_benefits |-> Obj([other_benefits |-> Items("HSA", 1)])])

\* tokens a message text is made of, and the texts of up to MaxTokens of them
MaxTokens == 3
TokenAlphabet ==
    {T("{"), T("}"), T("["), T("]"), T(":"), T(","), T("ws"), T("true"), T("null"),
     T("bad"), T("bignum"), TS("a"), TN(100)}
ShortTexts == UNION {[1..n -> TokenAlphabet] : n \in 0..MaxTokens}

\* well-formed texts with an integer literal over the digit limit in them
IntLimitTexts == {
    <<T("bignum")>>,
    <<T("{"), TS("ai_score"), T(":"), T("ws"), T("bignum"), T("}")>>,
    <<T("["), TN(100), T(","), T("bignum"), T("]")>>}

\* an object text with a key twice
DuplicateKeyText ==
    <<T("{"), TS("a"), T(":"), TN(100), T(","), TS("a"), T(":"), TN(200), T("}")>>

\* values a well-formed answer may carry
ParserValues ==
    {Null, Bool(TRUE), Bool(FALSE), Num(0), Num(755), Str(""), Str("BUY"), EmptyList,
     EmptyDict, Items("x", 2), List(<<Null, EmptyDict, List(<<Num(Whole(1))>>)>>),
     StrategyObject(Whole(8), MaxItems, 2), RecommendationObject("BUY", Whole(9)),
     StoryObject, Obj([a |-> Obj([b |-> List(<<Obj([c |-> Null])>>)])])}

\* what .parsed may hold
ParsedPayloads == {EmptyDict, EmptyList, Bool(FALSE), Num(0), Str(""), Other,
                   RecommendationObject("SELL", Whole(2))}

ParserResponses ==
    {NoChoices, Response(Null, Null), Response(Null, Other)}
    \cup {Response(Null, Text(x)) :
             x \in ShortTexts \cup MalformedTexts \cup IntLimitTexts \cup {DuplicateKeyText}}
    \cup {Answer(v) : v \in ParserValues}
    \cup {Response(p, c) : p \in ParsedPayloads,
                           c \in {Null, Text(<<T("bad")>>), Text(<<T("{"), T("}")>>),
                                  Text(<<T("bignum")>>)}}

\* sectors yfinance reports, the listed ones and others; None and a list are
\* what a malformed listing may carry
TableSectors == {"Technology", "Communication Services", "Consumer Cyclical",
                 "Healthcare", "Financial Services", "Industrials",
                 "Consumer Defensive"}
OtherSectors == {"Unknown", "Utilities", "technology", ""}
MetricsContexts ==
    {prepare_company_context(Str("AAPL"), Obj([sector |-> Str(x)])).v :
        x \in TableSectors \cup OtherSectors}
    \cup {prepare_company_context(Str("AAPL"), ci).v :
            ci \in {EmptyDict, Obj([sector |-> Null]),
                    Obj([sector |-> Items("Technology", 1)])}}

\* ai_maturity_score values: 0.06, 7.55, in and out of the range 0-10, True
Scores == {Num(0), Num(6), Num(755), Num(Whole(5)), Num(Whole(6)), Num(Whole(8)),
           Num(Whole(10)), Num(Whole(40)), Num(Whole(-3)), Bool(TRUE)}
MaxPartnerships == 2
MetricsStrategies ==
    {Obj([ai_maturity_score |-> sc, ai_initiatives |-> Items("initiative", i),
          partnerships |-> Items("partner", q)]) :
        sc \in Scores, i \in 0..MaxItems, q \in 0..MaxPartnerships}
    \cup {EmptyDict, StrategyFallback, Items("x", 1), Null,
          Obj([ai_maturity_score |-> Str("8"), ai_initiatives |-> Items("i", 3)]),
          Obj([ai_maturity_score |-> Null]),
          Obj([ai_maturity_score |-> Num(Whole(8)), ai_initiatives |-> Items("i", 3),
               partnerships |-> Null]),
          Obj([ai_maturity_score |-> Num(Whole(8)), ai_initiatives |-> Num(Whole(3))]),
          Obj([ai_initiatives |-> Str("abc"), partnerships |-> Obj([a |-> Null])])}

\* code points of the texts sanitized: e, backslash, the eight of the table,
\* U+65E5, e-acute, fullwidth A, the ligature fi, the combining acute accent,
\* the small em dash and U+1F600
MaxTextLen == 2
TextAlphabet ==
    {101, Backslash, EmDash, EnDash, 8216, 8217, 8220, 8221, Ellipsis, NoBreakSpace,
     26085, 233, 65313, 64257, Acute, 65112, 128512}
SanitizeInputs ==
    UNION {{Chars(cp) : cp \in [1..n -> TextAlphabet]} : n \in 0..MaxTextLen}
    \cup {Null, Num(0), Bool(FALSE), EmptyList, Num(Whole(7)), Bool(TRUE)}

\* m without the key k
Without(m, k) == [x \in DOMAIN m \ {k} |-> m[x]]

Sections == {"overview", "recommendation", "contribution_strategy",
             "roth_analysis", "fund_options", "additional_benefits"}

Benefits401kAnswers ==
    {Raises, NoChoices} \cup EmptyAnswers \cup NonMappingAnswers
    \cup {Answer(Benefits401kObject)}
    \cup {Answer(Obj(Without(Benefits401kObject.m, k))) : k \in Sections}
    \cup {Answer(Obj([overview |-> Str("generous")]))}

-----------------------------------------------------------------------------
(* State *)

NoCall == [symbol |-> Null, ticker |-> Null, company_info |-> Null, stock_data |-> Null,
           company_context |-> Null, ai_strategy_analysis |-> Null,
           investment_recommendation |-> Null, ai_metrics |-> Null,
           ai_story |-> Null, company_name |-> Null, analysis_result |-> Null,
           helper |-> "none", response |-> Null, s |-> Null]

\* app.py lines 20-26
NewSession == [stock_data |-> Null, analysis_data |-> Null, k401 |-> Null]

InitWith(keys) ==
    /\ api_key \in keys
    /\ session = NewSession
    /\ pc = "idle"
    /\ caller = "none"
    /\ call = NoCall
    /\ llm_calls = <<>>
    /\ result = Null
    /\ error = Null
    /\ clock = 0
    /\ analyzer = Null

-----------------------------------------------------------------------------
(* Direct use of the class *)

\* analyzer = AIAnalyzer()
Construct ==
    /\ pc = "idle"
    /\ analyzer = Null
    /\ LET r == AIAnalyzer_init(api_key) IN
          /\ analyzer' = IF r.exc THEN Null ELSE r.v
          /\ error' = IF r.exc THEN Str(r.e) ELSE Null
    /\ caller' = "api"
    /\ UNCHANGED <<api_key, session, pc, call, llm_calls, result, clock>>

\* analyzer.analyze_ai_potential(symbol, company_info) is entered
CallAnalyze(symbol, company_info) ==
    /\ pc = "idle"
    /\ caller = "api"
    /\ analyzer # Null
    /\ clock < MaxClock
    /\ pc' = "prepare"
    /\ call' = [NoCall EXCEPT !.symbol = symbol, !.company_info = company_info]
    /\ llm_calls' = <<>>
    /\ result' = Null
    /\ error' = Null
    /\ UNCHANGED <<api_key, session, caller, clock, analyzer>>

\* analyzer.analyze_company_401k(company_name) is entered
Call401k(company_name) ==
    /\ pc = "idle"
    /\ caller = "api"
    /\ analyzer # Null
    /\ clock < MaxClock
    /\ pc' = "k401_benefits"
    /\ call' = [NoCall EXCEPT !.company_name = company_name]
    /\ llm_calls' = <<>>
    /\ result' = Null
    /\ error' = Null
    /\ UNCHANGED <<api_key, session, caller, clock, analyzer>>

\* analyzer._parse_openai_json(response), response the argument in call
ParseResponse ==
    /\ pc = "idle"
    /\ caller = "api"
    /\ analyzer # Null
    /\ result = Null
    /\ call.helper = "_parse_openai_json"
    /\ result' = [method |-> "_parse_openai_json",
                  out |-> parse_openai_json(call.response)]
    /\ UNCHANGED <<api_key, session, pc, caller, call, llm_calls, error, clock,
                   analyzer>>

\* analyzer._calculate_ai_metrics(company_context, ai_strategy), on the
\* arguments in call
CalculateMetrics ==
    /\ pc = "idle"
    /\ caller = "api"
    /\ analyzer # Null
    /\ result = Null
    /\ call.helper = "_calculate_ai_metrics"
    /\ result' = [method |-> "_calculate_ai_metrics",
                  out |-> Return(calculate_ai_metrics(call.company_context,
                                                      call.ai_strategy_analysis))]
    /\ UNCHANGED <<api_key, session, pc, caller, call, llm_calls, error, clock,
                   analyzer>>

\* sanitize_text(s), on the argument in call
Sanitize ==
    /\ pc = "idle"
    /\ result = Null
    /\ call.helper = "sanitize_text"
    /\ result' = [method |-> "sanitize_text", out |-> Return(sanitize_text(call.s))]
    /\ UNCHANGED <<api_key, session, pc, caller, call, llm_calls, error, clock,
                   analyzer>>

-----------------------------------------------------------------------------
(* analyze_ai_potential, stage by stage *)

AnalysisError == Str("Error during analysis")
Analysis401kError == Str("Error during 401K analysis")

\* (mutant) a handler without line 128: the market data is not stored
Finish_analysis_only(out) ==
    /\ pc' = "idle"
    /\ result' = [method |-> "analyze_ai_potential", out |-> out]
    /\ clock' = clock + 1
    /\ IF caller = "app"
       THEN /\ session' = IF out.exc THEN session
                          ELSE [session EXCEPT !.analysis_data = out.v]
            /\ error' = IF out.exc THEN AnalysisError ELSE error
            /\ analyzer' = Null
       ELSE UNCHANGED <<session, analyzer, error>>
    /\ UNCHANGED <<api_key, caller, call>>

\* (mutant) a handler that stores a result only while none is stored
Finish_first_wins(out) ==
    /\ pc' = "idle"
    /\ result' = [method |-> "analyze_ai_potential", out |-> out]
    /\ clock' = clock + 1
    /\ IF caller = "app"
       THEN /\ session' = IF out.exc \/ session.analysis_data # Null THEN session
                          ELSE [session EXCEPT !.stock_data = call.stock_data,
                                               !.analysis_data = out.v]
            /\ error' = IF out.exc THEN AnalysisError ELSE error
            /\ analyzer' = Null
       ELSE UNCHANGED <<session, analyzer, error>>
    /\ UNCHANGED <<api_key, caller, call>>

\* analyze_ai_potential ends with outcome out: for the handler, which stores
\* a returned value with the market data in the session (app.py 128-129) and
\* reports an exception (app.py 134-135), or for the direct caller
Finish(out) ==
    /\ pc' = "idle"
    /\ result' = [method |-> "analyze_ai_potential", out |-> out]
    /\ clock' = clock + 1
    /\ IF caller = "app"
       THEN /\ session' = IF out.exc THEN session
                          ELSE [session EXCEPT !.stock_data = call.stock_data,
                                               !.analysis_data = out.v]
            /\ error' = IF out.exc THEN AnalysisError ELSE error
            /\ analyzer' = Null
       ELSE UNCHANGED <<session, analyzer, error>>
    /\ UNCHANGED <<api_key, caller, call>>

\* lines 96-101; an exception here reaches the handler of line 124
PrepareContext ==
    /\ pc = "prepare"
    /\ LET r == prepare_company_context(call.symbol, call.company_info) IN
          IF r.exc
          THEN /\ Finish(critical_error(r.e, clock))
               /\ UNCHANGED llm_calls
          ELSE /\ pc' = "strategy"
               /\ call' = [call EXCEPT !.company_context = r.v]
               /\ UNCHANGED <<api_key, session, caller, llm_calls, result, error,
                              clock, analyzer>>

\* The kind of answer an LLM call got
Kind(llm) ==
    IF llm.kind = "raise" THEN "raise"
    ELSE IF llm.n_choices = 0 THEN "no_choice"
    ELSE IF llm.parsed # Null THEN "parsed"
    ELSE IF llm.content.t # "text" \/ ~NotBlank(llm.content.toks) THEN "absent"
    ELSE IF ~json_loads(llm.content.toks).ok
         THEN IF json_loads(llm.content.toks).e = "JSONDecodeError"
              THEN "malformed" ELSE "undecodable"
    ELSE "json"

\* The value an answer carries: the parsed payload, or what its content
\* decodes to; None when it carries no value
DecodedValue(llm) ==
    CASE Kind(llm) = "parsed" -> llm.parsed
      [] Kind(llm) = "json" -> json_loads(llm.content.toks).v
      [] OTHER -> Null

\* a call a stage issued: the stage, the kind of answer, and the Python type
\* and the truth value of the value it carried
Call(stage, llm) ==
    [stage |-> stage, how |-> Kind(llm),
     decoded |-> DecodedValue(llm).t, truthy |-> Truthy(DecodedValue(llm))]

\* (mutant) a stage whose call raised issues it once more
Issued_retry(stage, st, llm) ==
    IF st.called
    THEN LET one == Call(stage, llm) IN
             IF llm.kind = "raise" THEN llm_calls \o <<one, one>>
             ELSE Append(llm_calls, one)
    ELSE llm_calls

\* the calls issued so far, with the one the stage made and the kind of
\* answer it got
Issued(stage, st, llm) ==
    IF st.called THEN Append(llm_calls, Call(stage, llm))
    ELSE llm_calls

\* the user prompt of the call a stage of the running or last invocation
\* issued: the stage builds it from its arguments, which the invocation does
\* not change afterwards
user_prompt(stage) ==
    CASE stage = "strategy" -> strategy_prompt(call.company_context)
      [] stage = "recommendation" ->
            recommendation_prompt(call.company_context, call.ai_strategy_analysis)
      [] stage = "story" -> story_prompt(call.company_context, call.ai_strategy_analysis)
      [] stage = "401k" -> benefits_401k_prompt(call.company_name)

\* lines 104-106
StrategyStage(llm) ==
    /\ pc = "strategy"
    /\ LET st == analyze_ai_strategy(call.company_context, llm) IN
          /\ call' = [call EXCEPT !.ai_strategy_analysis = st.v]
          /\ llm_calls' = Issued("strategy", st, llm)
    /\ pc' = "recommend"
    /\ UNCHANGED <<api_key, session, caller, result, error, clock, analyzer>>

\* line 109
RecommendationStage(llm) ==
    /\ pc = "recommend"
    /\ LET st == get_investment_recommendation(call.company_context,
                                               call.ai_strategy_analysis, llm) IN
          /\ call' = [call EXCEPT !.investment_recommendation = st.v]
          /\ llm_calls' = Issued("recommendation", st, llm)
    /\ pc' = "metrics"
    /\ UNCHANGED <<api_key, session, caller, result, error, clock, analyzer>>

\* line 112
MetricsStage ==
    /\ pc = "metrics"
    /\ call' = [call EXCEPT !.ai_metrics =
                    calculate_ai_metrics(call.company_context, call.ai_strategy_analysis)]
    /\ pc' = "story"
    /\ UNCHANGED <<api_key, session, caller, llm_calls, result, error, clock, analyzer>>

\* line 115
StoryStage(llm) ==
    /\ pc = "story"
    /\ LET st == generate_ai_story(call.company_context, call.ai_strategy_analysis, llm) IN
          /\ call' = [call EXCEPT !.ai_story = st.v]
          /\ llm_calls' = Issued("story", st, llm)
    /\ pc' = "assemble"
    /\ UNCHANGED <<api_key, session, caller, result, error, clock, analyzer>>

\* lines 117-122
Assemble ==
    /\ pc = "assemble"
    /\ Finish(Return(AnalysisResult(call.investment_recommendation, call.ai_metrics,
                                    call.ai_story, clock)))
    /\ UNCHANGED llm_calls

-----------------------------------------------------------------------------
(* analyze_company_401k *)

\* line 144
Benefits401kStage(llm) ==
    /\ pc = "k401_benefits"
    /\ LET st == analyze_401k_benefits(call.company_name, llm) IN
          /\ call' = [call EXCEPT !.analysis_result = st.v]
          /\ llm_calls' = Issued("401k", st, llm)
    /\ pc' = "k401_assemble"
    /\ UNCHANGED <<api_key, session, caller, result, error, clock, analyzer>>

\* (mutant) a handler that drops the stock results when it stores a 401k
\* analysis
Assemble401k_drops_stock ==
    /\ pc = "k401_assemble"
    /\ LET out == company_401k_result(call.analysis_result, clock) IN
          /\ result' = [method |-> "analyze_company_401k", out |-> out]
          /\ IF caller = "app"
             THEN /\ session' = IF out.exc THEN session
                                ELSE [NewSession EXCEPT !.k401 =
                                         [company_name |-> call.company_name,
                                          analysis |-> out.v]]
                  /\ error' = IF out.exc THEN Analysis401kError ELSE error
                  /\ analyzer' = Null
             ELSE UNCHANGED <<session, analyzer, error>>
    /\ pc' = "idle"
    /\ clock' = clock + 1
    /\ UNCHANGED <<api_key, caller, llm_calls, call>>

\* lines 146-158, and app.py 171-174 when a handler called
Assemble401k ==
    /\ pc = "k401_assemble"
    /\ LET out == company_401k_result(call.analysis_result, clock) IN
          /\ result' = [method |-> "analyze_company_401k", out |-> out]
          /\ IF caller = "app"
             THEN /\ session' = IF out.exc THEN session
                                ELSE [session EXCEPT !.k401 =
                                         [company_name |-> call.company_name,
                                          analysis |-> out.v]]
                  /\ error' = IF out.exc THEN Analysis401kError ELSE error
                  /\ analyzer' = Null
             ELSE UNCHANGED <<session, analyzer, error>>
    /\ pc' = "idle"
    /\ clock' = clock + 1
    /\ UNCHANGED <<api_key, caller, llm_calls, call>>

-----------------------------------------------------------------------------
(* The Streamlit handlers of app.py.  A run of the script redraws the page, *)
(* so a message shown by the run before is gone.  display_analysis_results  *)
(* and display_401k_results only render and are left out.                   *)

InvalidSymbolError == Str("Invalid stock symbol or no data available. Please check the symbol and try again.")

\* what yfinance may do for the symbol typed in
InfoOf(symbol) == IF symbol = Str("AAPL") THEN InfoAAPL ELSE InfoSparse
TickersOf(symbol) ==
    {Ticker(TRUE, Null, FALSE),
     Ticker(FALSE, EmptyDict, FALSE),
     Ticker(FALSE, Obj([longName |-> Str("Delisted Corp")]), FALSE),
     Ticker(FALSE, InfoOf(symbol), TRUE),
     Ticker(FALSE, InfoOf(symbol), FALSE)}

\* handle_stock_analysis, lines 106-121 and 137-156; the call of line 124
\* continues in PrepareContext
HandleStockAnalysis(stock_symbol, analyze_button, ticker) ==
    /\ pc = "idle"
    /\ caller' = "app"
    /\ llm_calls' = <<>>
    /\ result' = Null
    /\ IF analyze_button /\ Truthy(stock_symbol)
       THEN LET ai_analyzer == AIAnalyzer_init(api_key)
                stock_data == get_stock_data(ticker)
            IN  IF ai_analyzer.exc
                THEN /\ error' = Str(ai_analyzer.e)
                     /\ call' = NoCall
                     /\ UNCHANGED <<pc, analyzer>>
                ELSE IF stock_data = Null
                THEN /\ error' = InvalidSymbolError
                     /\ call' = [NoCall EXCEPT !.symbol = stock_symbol,
                                               !.ticker = ticker]
                     /\ UNCHANGED <<pc, analyzer>>
                ELSE /\ clock < MaxClock
                     /\ error' = Null
                     /\ analyzer' = ai_analyzer.v
                     /\ pc' = "prepare"
                     /\ call' = [NoCall EXCEPT !.symbol = stock_symbol,
                                               !.ticker = ticker,
                                               !.company_info = stock_data.m.info,
                                               !.stock_data = stock_data]
       ELSE /\ error' = Null
            /\ call' = NoCall
            /\ UNCHANGED <<pc, analyzer>>
    /\ UNCHANGED <<api_key, session, clock>>

\* handle_401k_analysis, lines 161-168 and 182-203; the call of line 168
\* continues in Benefits401kStage
Handle401kAnalysis(company_name, analyze_401k_button) ==
    /\ pc = "idle"
    /\ caller' = "app"
    /\ llm_calls' = <<>>
    /\ result' = Null
    /\ IF analyze_401k_button /\ Truthy(company_name)
       THEN LET ai_analyzer == AIAnalyzer_init(api_key) IN
                IF ai_analyzer.exc
                THEN /\ error' = Str(ai_analyzer.e)
                     /\ call' = NoCall
                     /\ UNCHANGED <<pc, analyzer>>
                ELSE /\ clock < MaxClock
                     /\ error' = Null
                     /\ analyzer' = ai_analyzer.v
                     /\ pc' = "k401_benefits"
                     /\ call' = [NoCall EXCEPT !.company_name = company_name]
       ELSE /\ error' = Null
            /\ call' = NoCall
            /\ UNCHANGED <<pc, analyzer>>
    /\ UNCHANGED <<api_key, session, clock>>

-----------------------------------------------------------------------------
(* Specifications *)

\* The application: the two handlers and the invocations they start
AppKeys == {ValidKey, Null, Chars(<<107, EmDash>>)}
AppSymbols == Symbols \cup {Str("")}
AppCompanyNames == {Str("Acme"), Str("")}
AppStrategyAnswers == {Raises, Answer(StrategyObject(Whole(8), MaxItems, 2))}
AppRecommendationAnswers == {Raises, Answer(RecommendationObject("BUY", Whole(9)))}
AppStoryAnswers == {Raises, Answer(StoryObject)}
App401kAnswers == {Raises, Answer(Benefits401kObject), Answer(EmptyDict)}

Init == InitWith(AppKeys)

Next ==
    \/ \E s \in AppSymbols, b \in BOOLEAN : \E tk \in TickersOf(s) :
          HandleStockAnalysis(s, b, tk)
    \/ \E c \in AppCompanyNames, b \in BOOLEAN : Handle401kAnalysis(c, b)
    \/ PrepareContext
    \/ \E llm \in AppStrategyAnswers : StrategyStage(llm)
    \/ \E llm \in AppRecommendationAnswers : RecommendationStage(llm)
    \/ MetricsStage
    \/ \E llm \in AppStoryAnswers : StoryStage(llm)
    \/ Assemble
    \/ \E llm \in App401kAnswers : Benefits401kStage(llm)
    \/ Assemble401k

Spec == Init /\ [][Next]_vars

\* The class AIAnalyzer used directly, with every behaviour of the LLM
InitAnalyzer == InitWith({ValidKey, Null})

NextAnalyzer ==
    \/ Construct
    \/ \E s \in Symbols, ci \in CompanyInfos : CallAnalyze(s, ci)
    \/ \E c \in CompanyNames : Call401k(c)
    \/ PrepareContext
    \/ \E llm \in StrategyAnswers : StrategyStage(llm)
    \/ \E llm \in RecommendationAnswers : RecommendationStage(llm)
    \/ MetricsStage
    \/ \E llm \in StoryAnswers : StoryStage(llm)
    \/ Assemble
    \/ \E llm \in Benefits401kAnswers : Benefits401kStage(llm)
    \/ Assemble401k

SpecAnalyzer == InitAnalyzer /\ [][NextAnalyzer]_vars

\* An invocation that was entered runs on: the interpreter executes the next
\* statement, and every LLM behaviour considered returns or raises
AnalyzerSteps ==
    \/ PrepareContext
    \/ \E llm \in StrategyAnswers : StrategyStage(llm)
    \/ \E llm \in RecommendationAnswers : RecommendationStage(llm)
    \/ MetricsStage
    \/ \E llm \in StoryAnswers : StoryStage(llm)
    \/ Assemble
    \/ \E llm \in Benefits401kAnswers : Benefits401kStage(llm)
    \/ Assemble401k

SpecAnalyzerLive == SpecAnalyzer /\ WF_vars(AnalyzerSteps)

\* The constructor alone, on every credential up to MaxKeyLen characters
InitKeys == InitWith(AllKeys)
NextKeys == Construct
SpecKeys == InitKeys /\ [][NextKeys]_vars

\* The helper methods of the class called on their own, on every input
HelperCalls ==
    {[NoCall EXCEPT !.helper = "_parse_openai_json", !.response = r] :
        r \in ParserResponses}
    \cup {[NoCall EXCEPT !.helper = "_calculate_ai_metrics",
                         !.company_context = ctx, !.ai_strategy_analysis = st] :
            ctx \in MetricsContexts, st \in MetricsStrategies}
    \cup {[NoCall EXCEPT !.helper = "sanitize_text", !.s = x] : x \in SanitizeInputs}

InitHelpers ==
    /\ api_key = ValidKey
    /\ session = NewSession
    /\ pc = "idle"
    /\ caller = "api"
    /\ call \in HelperCalls
    /\ llm_calls = <<>>
    /\ result = Null
    /\ error = Null
    /\ clock = 0
    /\ analyzer = NewAnalyzer

NextHelpers ==
    \/ ParseResponse
    \/ CalculateMetrics
    \/ Sanitize
SpecHelpers == InitHelpers /\ [][NextHelpers]_vars

\* The AI-strategy stage of an invocation, on listings whose business
\* summary is around the limit
NextStrategy ==
    \/ Construct
    \/ \E s \in Symbols, ci \in SummaryInfos : CallAnalyze(s, ci)
    \/ PrepareContext
    \/ \E llm \in StrategyAnswers : StrategyStage(llm)

SpecStrategy == InitWith({ValidKey}) /\ [][NextStrategy]_vars

-----------------------------------------------------------------------------
(* Properties *)

\* the method m has just ended and result holds its outcome
Ended(m) == pc = "idle" /\ result # Null /\ result.method = m

\* the LLM call of the stage, a one-element set, or {} when none was issued
CallsOf(stage) == {llm_calls[i] : i \in {j \in 1..Len(llm_calls) : llm_calls[j].stage = stage}}
Got(stage, hows) == \E c \in CallsOf(stage) : c.how \in hows

AnalysisKeys == {"investment_recommendation", "ai_metrics", "ai_story",
                 "analysis_timestamp"}

\* C1: analyze_ai_potential never propagates an exception: whatever the
\* symbol, the company_info and the LLM do in each stage, an invocation that
\* was entered ends, and it ends by returning a mapping with exactly the keys
\* investment_recommendation, ai_metrics, ai_story and analysis_timestamp.
C1_NeverPropagates ==
    /\ [](Ended("analyze_ai_potential") =>
            /\ ~result.out.exc
            /\ DOMAIN result.out.v = AnalysisKeys)
    /\ [](pc \in {"prepare", "strategy", "recommend", "metrics", "story", "assemble"}
            => <>Ended("analyze_ai_potential"))

\* an invocation in which the strategy call raised, the recommendation call
\* got malformed text and the story call got an object text has returned
C1_Witness ==
    /\ Ended("analyze_ai_potential")
    /\ Got("strategy", {"raise"})
    /\ Got("recommendation", {"malformed"})
    /\ Got("story", {"json"})

RecommendationKeys == {"action", "ai_score", "reasoning", "key_catalysts", "risk_factors"}
MetricsKeys == {"ai_revenue_exposure", "ai_partnerships", "ai_patents",
                "ai_investment_score"}
StoryKeys == {"strategy_summary", "use_cases", "opportunities", "competitive_advantages"}

HasKeys(v, keys) == IsObj(v) /\ keys \subseteq DOMAIN v.m

\* C2: in every result analyze_ai_potential returns no field is missing:
\* investment_recommendation has the keys action, ai_score, reasoning,
\* key_catalysts and risk_factors, ai_metrics has its four keys and ai_story
\* has its four keys, also when an LLM response is absent, empty or malformed.
C2_NoFieldMissing ==
    Ended("analyze_ai_potential") /\ ~result.out.exc =>
        /\ HasKeys(result.out.v.investment_recommendation, RecommendationKeys)
        /\ HasKeys(result.out.v.ai_metrics, MetricsKeys)
        /\ HasKeys(result.out.v.ai_story, StoryKeys)

\* the strategy-stage LLM call of the invocation raised
StrategyCallRaised == Got("strategy", {"raise"})

\* C3 as stated: if the LLM raises during the AI-strategy stage, the result
\* is complete, with investment_recommendation.action = "HOLD" and
\* ai_metrics.ai_investment_score = 5, whatever the LLM does later.
C3_HoldWhateverLater ==
    Ended("analyze_ai_potential") /\ StrategyCallRaised =>
        /\ ~result.out.exc
        /\ DOMAIN result.out.v = AnalysisKeys
        /\ HasKeys(result.out.v.investment_recommendation, {"action"})
        /\ result.out.v.investment_recommendation.m.action = Str("HOLD")
        /\ HasKeys(result.out.v.ai_metrics, {"ai_investment_score"})
        /\ result.out.v.ai_metrics.m.ai_investment_score = Num(Whole(5))

\* C3 (amended): if the LLM raises during the AI-strategy stage, the result
\* has the four top-level keys and ai_metrics.ai_investment_score = 5; the
\* recommendation stage still issues its own LLM call, and
\* investment_recommendation.action = "HOLD" when that call raises too.
C3_Score5AndHoldIfRecommendationRaises ==
    Ended("analyze_ai_potential") /\ StrategyCallRaised =>
        /\ ~result.out.exc
        /\ DOMAIN result.out.v = AnalysisKeys
        /\ HasKeys(result.out.v.ai_metrics, MetricsKeys)
        /\ result.out.v.ai_metrics.m.ai_investment_score = Num(Whole(5))
        /\ CallsOf("recommendation") # {}
        /\ Got("recommendation", {"raise"}) =>
              /\ HasKeys(result.out.v.investment_recommendation, RecommendationKeys)
              /\ result.out.v.investment_recommendation.m.action = Str("HOLD")

\* the strategy call and the recommendation call both raised, the story call
\* got an object
C3_Witness ==
    /\ Ended("analyze_ai_potential")
    /\ StrategyCallRaised
    /\ Got("recommendation", {"raise"})
    /\ Got("story", {"json"})
    /\ result.out.v.investment_recommendation.m.action = Str("HOLD")

\* C4: whenever the investment-recommendation stage fails (its LLM call
\* raises, or its response cannot be parsed as JSON), the
\* investment_recommendation of the result is exactly the fixed fallback
\* {action: HOLD, ai_score: 5, reasoning: fixed text, key_catalysts: [],
\* risk_factors: []}.
C4_FailedRecommendationIsFallback ==
    /\ Ended("analyze_ai_potential")
    /\ Got("recommendation", {"raise", "malformed"})
    => /\ ~result.out.exc
       /\ result.out.v.investment_recommendation = Obj([
              action |-> Str("HOLD"),
              ai_score |-> Num(Whole(5)),
              reasoning |-> Str("Unable to complete investment analysis at this time."),
              key_catalysts |-> EmptyList,
              risk_factors |-> EmptyList])

\* the market-data collaborator reports the symbol invalid
TickerInvalid(tk) ==
    \/ tk.raises
    \/ tk.info = EmptyDict
    \/ "symbol" \notin DOMAIN tk.info.m
    \/ tk.hist_empty

\* C5: when get_stock_data returns None for the symbol (info empty, info
\* without 'symbol', history empty, or the fetch raised), the run of the
\* stock-analysis handler makes no LLM call, does not enter
\* analyze_ai_potential and leaves the session's stock_data and
\* analysis_data unchanged.
C5_InvalidSymbolNoAnalysis ==
    [][pc = "idle" /\ call'.ticker # Null /\ TickerInvalid(call'.ticker) =>
          /\ pc' = "idle"
          /\ llm_calls' = <<>>
          /\ result' = Null
          /\ session' = session]_vars

\* an invalid symbol was entered after an analysis had been stored
C5_Witness ==
    /\ pc = "idle"
    /\ call.ticker # Null
    /\ TickerInvalid(call.ticker)
    /\ call.ticker.hist_empty
    /\ error = InvalidSymbolError
    /\ session.analysis_data # Null

HasNonAscii(cp) == \E i \in DOMAIN cp : cp[i] >= 128
HasDash(cp) == \E i \in DOMAIN cp : cp[i] \in {8212, 8211}

\* C6: constructing AIAnalyzer with a missing or empty credential raises the
\* 'not set' error; with a credential that has a non-ASCII character and
\* contains an em dash or en dash, the em/en-dash error (also when other
\* non-ASCII characters are present); with any other credential that has a
\* non-ASCII character, the generic non-ASCII error; with a non-empty ASCII
\* credential it succeeds.  No LLM client is created in a failing case.
C6_CredentialClassification ==
    caller = "api" =>
        IF api_key = Null \/ api_key = Chars(<<>>)
        THEN error = Str(NotSetError) /\ analyzer = Null
        ELSE IF HasNonAscii(api_key.cp) /\ HasDash(api_key.cp)
        THEN error = Str(DashError) /\ analyzer = Null
        ELSE IF HasNonAscii(api_key.cp)
        THEN error = Str(NonAsciiError) /\ analyzer = Null
        ELSE error = Null /\ analyzer # Null /\ analyzer.openai_client

\* the constructor ran on a credential with an en dash and U+65E5
C6_Witness ==
    /\ caller = "api"
    /\ api_key = Chars(<<107, 26085, EnDash>>)
    /\ error = Str(DashError)

IsNum(v) == v.t = "num"

\* C7: in every result of analyze_ai_potential the numeric metrics lie in
\* their documented ranges: 0 <= ai_revenue_exposure <= 100,
\* ai_partnerships >= 0, ai_patents >= 0 and 0 <= ai_investment_score <= 10,
\* for every ai_maturity_score the AI-strategy response may carry.
C7_MetricsInRange ==
    Ended("analyze_ai_potential") /\ ~result.out.exc =>
        LET m == result.out.v.ai_metrics IN
            /\ HasKeys(m, MetricsKeys)
            /\ IsNum(m.m.ai_revenue_exposure)
            /\ 0 <= m.m.ai_revenue_exposure.c /\ m.m.ai_revenue_exposure.c <= Whole(100)
            /\ IsNum(m.m.ai_partnerships) /\ m.m.ai_partnerships.c >= 0
            /\ IsNum(m.m.ai_patents) /\ m.m.ai_patents.c >= 0
            /\ IsNum(m.m.ai_investment_score)
            /\ 0 <= m.m.ai_investment_score.c /\ m.m.ai_investment_score.c <= Whole(10)

\* the 401k LLM call was answered with an object that has some of the six
\* sections and lacks others
PartialSections ==
    /\ Got("401k", {"json", "parsed"})
    /\ IsObj(call.analysis_result)
    /\ DOMAIN call.analysis_result.m \subseteq Sections
    /\ DOMAIN call.analysis_result.m \notin {{}, Sections}

\* C8: in 401k mode, when the parsed response lacks one of the six sections,
\* the result carries the full static default substructure for that section
\* (that of _get_default_401k_analysis), and every section present in the
\* response is passed through unmodified.
C8_MissingSectionDefaults ==
    Ended("analyze_company_401k") /\ PartialSections =>
        /\ ~result.out.exc
        /\ \A sec \in Sections :
              result.out.v[sec] =
                  IF sec \in DOMAIN call.analysis_result.m
                  THEN call.analysis_result.m[sec]
                  ELSE get_default_401k_analysis(0)[sec]

\* the single 401k stage failed totally: the call raised, or the response
\* parsed to an empty mapping
TotalFailure401k ==
    \/ Got("401k", {"raise"})
    \/ Got("401k", {"json", "absent", "malformed"}) /\ call.analysis_result = EmptyDict

\* C9: in 401k mode, total failure of the single stage (the LLM call raises,
\* or the response parses to an empty mapping) makes analyze_company_401k
\* return the full static default document of _get_default_401k_analysis,
\* the same document in both cases.
C9_TotalFailureDefaultDocument ==
    Ended("analyze_company_401k") /\ TotalFailure401k =>
        /\ ~result.out.exc
        /\ result.out.v = get_default_401k_analysis(result.out.v.analysis_timestamp.at)

Keys401k == Sections \cup {"analysis_timestamp"}

\* C10: analyze_company_401k never propagates an exception and, for every
\* company name and LLM behaviour, returns a mapping with exactly the keys
\* overview, recommendation, contribution_strategy, roth_analysis,
\* fund_options, additional_benefits and analysis_timestamp, after at most
\* one LLM call.
C10_401kAlwaysReturns ==
    Ended("analyze_company_401k") =>
        /\ ~result.out.exc
        /\ DOMAIN result.out.v = Keys401k
        /\ Len(llm_calls) <= 1
        /\ \A i \in DOMAIN llm_calls : llm_calls[i].stage = "401k"

\* the 401k call was answered with a JSON value that is no mapping
C10_Witness ==
    /\ Ended("analyze_company_401k")
    /\ Got("401k", {"json"})
    /\ ~IsObj(call.analysis_result)
    /\ Len(llm_calls) = 1


\* C11: _parse_openai_json is total on a response with a first choice: it
\* returns the pre-parsed payload when there is one; otherwise, for a
\* non-blank text, the decoded value when the text is well-formed (the value
\* a JSON text was written from) and {} when decoding fails; otherwise {}.
\* It never raises.
C11_ParserTotal ==
    Ended("_parse_openai_json") /\ call.response.n_choices > 0 =>
        LET r == call.response
            out == result.out
        IN  /\ ~out.exc
            /\ r.parsed # Null => out = Return(r.parsed)
            /\ r.parsed = Null =>
                  /\ r.content.t # "text" => out = Return(EmptyDict)
                  /\ r.content.t = "text" =>
                        /\ ~NotBlank(r.content.toks) => out = Return(EmptyDict)
                        /\ \A v \in ParserValues :
                              r.content.toks = JsonText(v) => out = Return(v)
                        /\ r.content.toks \in MalformedTexts => out = Return(EmptyDict)

\* the strategy output has the types the prompt asks for: a numeric score
\* and lists (a missing field takes its default), and the sector is a str
\* or None
WellTypedStrategy(ctx, st) ==
    /\ IsObj(st)
    /\ IsNumber(Get(st, "ai_maturity_score", Num(Whole(5))))
    /\ IsList(Get(st, "ai_initiatives", EmptyList))
    /\ IsList(Get(st, "partnerships", EmptyList))
    /\ ctx.m.sector.t \in {"str", "null"}

\* the table of lines 516-524 and its default, in tenths
TableMultiplier(sector) ==
    IF sector = Str("Technology") THEN 15
    ELSE IF sector = Str("Communication Services") THEN 12
    ELSE IF sector = Str("Consumer Cyclical") THEN 10
    ELSE IF sector \in {Str("Healthcare"), Str("Financial Services")} THEN 11
    ELSE IF sector = Str("Consumer Defensive") THEN 7
    ELSE 8

Abs(x) == IF x < 0 THEN -x ELSE x

\* C12: for every sector, numeric ai_maturity_score and list of
\* ai_initiatives of a well-typed strategy output, ai_revenue_exposure is
\* min(100, multiplier * score * 2 + count(ai_initiatives) * 5) rounded to one
\* decimal (a multiple of 0.1 at most 0.05 away from it); Technology, score 8
\* and 3 initiatives give 39.0; the value never exceeds 100.
C12_RevenueExposure ==
    Ended("_calculate_ai_metrics")
    /\ WellTypedStrategy(call.company_context, call.ai_strategy_analysis) =>
        LET st == call.ai_strategy_analysis
            score == Centi(Get(st, "ai_maturity_score", Num(Whole(5))))
            count == Len(Get(st, "ai_initiatives", EmptyList).l)
            \* in thousandths
            exact == Min(100000,
                         TableMultiplier(call.company_context.m.sector) * score * 2
                         + count * 5000)
            got == result.out.v.m.ai_revenue_exposure
        IN  /\ got.t = "num"
            /\ got.c % 10 = 0
            /\ Abs(got.c * 10 - exact) <= 50
            /\ got.c <= 10000
            /\ (call.company_context.m.sector = Str("Technology")
                /\ score = 800 /\ count = 3) => got = Num(3900)

\* the example of the claim has been computed
C12_Witness ==
    /\ Ended("_calculate_ai_metrics")
    /\ WellTypedStrategy(call.company_context, call.ai_strategy_analysis)
    /\ call.company_context.m.sector = Str("Technology")
    /\ Get(call.ai_strategy_analysis, "ai_maturity_score", Null) = Num(Whole(8))
    /\ Get(call.ai_strategy_analysis, "ai_initiatives", Null) = Items("initiative", 3)
    /\ result.out.v.m.ai_revenue_exposure = Num(3900)

\* round(x) of x = c/10: the nearest integer, a tie going to the even one
RoundNearest(c) ==
    LET q == c \div 10
        r == c % 10
    IN  IF r < 5 THEN q
        ELSE IF r > 5 THEN q + 1
        ELSE IF q % 2 = 0 THEN q ELSE q + 1

\* C13: for every numeric ai_maturity_score (7.55 and 0.06 included) and
\* every partnerships list, ai_patents is
\* max(0, round(score * 10) + count(partnerships) * 5), the score term rounded
\* to the nearest integer and not truncated; score 6 with 2 partnerships
\* gives 70.
C13_PatentsRounded ==
    Ended("_calculate_ai_metrics")
    /\ WellTypedStrategy(call.company_context, call.ai_strategy_analysis) =>
        LET st == call.ai_strategy_analysis
            score == Centi(Get(st, "ai_maturity_score", Num(Whole(5))))
            count == Len(Get(st, "partnerships", EmptyList).l)
        IN  /\ result.out.v.m.ai_patents
                  = Num(Whole(Max(0, RoundNearest(score) + count * 5)))
            /\ (score = 600 /\ count = 2) => result.out.v.m.ai_patents = Num(Whole(70))

\* C14: the multiplier the derivation uses is the table value for the seven
\* listed sectors and 0.8 for every other sector value, "Unknown" and a
\* missing sector included, and the lookup never fails: with no initiatives
\* the exposure below the cap is multiplier * score * 2, and the metrics are
\* not the fallback of the except clause.
C14_SectorMultiplier ==
    Ended("_calculate_ai_metrics")
    /\ WellTypedStrategy(call.company_context, call.ai_strategy_analysis)
    /\ Get(call.ai_strategy_analysis, "ai_maturity_score", Null) = Num(Whole(10))
    /\ Get(call.ai_strategy_analysis, "ai_initiatives", Null) = EmptyList =>
        LET sector == call.company_context.m.sector
            expected ==
                CASE sector = Str("Technology") -> 15
                  [] sector = Str("Communication Services") -> 12
                  [] sector = Str("Consumer Cyclical") -> 10
                  [] sector = Str("Healthcare") -> 11
                  [] sector = Str("Financial Services") -> 11
                  [] sector = Str("Industrials") -> 8
                  [] sector = Str("Consumer Defensive") -> 7
                  [] OTHER -> 8
        IN  \* multiplier/10 * 10 * 2, in hundredths
            /\ result.out.v.m.ai_revenue_exposure = Num(expected * 200)
            /\ result.out.v.m.ai_investment_score = Num(Whole(10))

\* an unlisted sector and a missing one have been looked up
C14_Witness ==
    /\ Ended("_calculate_ai_metrics")
    /\ WellTypedStrategy(call.company_context, call.ai_strategy_analysis)
    /\ call.company_context.m.sector \in {Str("Unknown"), Str("Utilities")}
    /\ Get(call.ai_strategy_analysis, "ai_maturity_score", Null) = Num(Whole(10))
    /\ Get(call.ai_strategy_analysis, "ai_initiatives", Null) = EmptyList
    /\ result.out.v.m.ai_revenue_exposure = Num(1600)

\* C15: sanitize_text is idempotent: sanitizing its output again gives the
\* same text, for every input (mixed scripts, dashes, smart quotes, ellipsis,
\* no-break space, characters that become backslash escapes).
C15_SanitizeIdempotent ==
    Ended("sanitize_text") => sanitize_text(result.out.v) = result.out.v

\* a text with a backslash escape in it has been sanitized
C15_Witness ==
    /\ Ended("sanitize_text")
    /\ call.s = Chars(<<26085, EmDash>>)
    /\ result.out.v = Chars(<<Backslash, 117, 54, 53, 101, 53, 45>>)

\* a occurs in b as a run of consecutive code points
OccursIn(a, b) ==
    \E i \in 0..(Len(b) - Len(a)) : SubSeq(b, i + 1, i + Len(a)) = a

TableCodePoints == {EmDash, EnDash, 8216, 8217, 8220, 8221, Ellipsis, NoBreakSpace}
TableEquivalent(c) ==
    IF c \in {EmDash, EnDash} THEN <<45>>
    ELSE IF c \in {8216, 8217} THEN <<39>>
    ELSE IF c \in {8220, 8221} THEN <<34>>
    ELSE IF c = Ellipsis THEN <<46, 46, 46>>
    ELSE <<32>>

\* what holds of sanitize_text whatever the text is: the output is ASCII, a
\* falsy input gives "", a table code point alone gives its equivalent
SanitizeBasics ==
    /\ ~result.out.exc
    /\ result.out.v.t = "chars"
    /\ \A i \in 1..Len(result.out.v.cp) : result.out.v.cp[i] <= MaxAscii
    /\ ~Truthy(call.s) => result.out.v = Chars(<<>>)
    /\ \A c \in TableCodePoints :
          call.s = Chars(<<c>>) => result.out.v = Chars(TableEquivalent(c))

\* C16 (as stated): the output is ASCII for every input and the call never
\* raises; each table code point is replaced by its ASCII equivalent, every
\* other non-ASCII character of the input is replaced by a visible backslash
\* escape rather than dropped, and a falsy input yields "".
C16_EveryOtherCharacterEscaped ==
    Ended("sanitize_text") =>
        /\ SanitizeBasics
        /\ call.s.t = "chars" =>
              \A i \in 1..Len(call.s.cp) :
                  LET c == call.s.cp[i] IN
                      c > MaxAscii /\ c \notin TableCodePoints
                          => OccursIn(BackslashReplace(c), result.out.v.cp)

\* C16 (amended): as above, the characters that are escaped being the
\* non-ASCII ones the text has once it is NFKC-normalized.
C16_RemainingCharactersEscaped ==
    Ended("sanitize_text") =>
        /\ SanitizeBasics
        /\ call.s.t = "chars" =>
              LET n == NFKC(call.s.cp) IN
                  \A i \in 1..Len(n) :
                      n[i] > MaxAscii /\ n[i] \notin TableCodePoints
                          => OccursIn(BackslashReplace(n[i]), result.out.v.cp)

\* a fullwidth letter, which normalization turns into ASCII, and a character
\* that is escaped have been sanitized
C16_Witness ==
    /\ Ended("sanitize_text")
    /\ call.s = Chars(<<65313, 26085>>)
    /\ result.out.v = Chars(<<65, Backslash, 117, 54, 53, 101, 53>>)

\* C17: when context preparation throws (company_info is no mapping),
\* analyze_ai_potential returns exactly the top-level default result: HOLD
\* with ai_score 5 and no catalysts or risks, metrics 0, 0, 0 and score 5, a
\* story with no use cases, opportunities or advantages; and no LLM call has
\* been made.
C17_TopLevelDefault ==
    Ended("analyze_ai_potential") /\ ~IsObj(call.company_info) =>
        /\ ~result.out.exc
        /\ DOMAIN result.out.v = AnalysisKeys
        /\ LET rec == result.out.v.investment_recommendation
               story == result.out.v.ai_story
           IN  /\ IsObj(rec) /\ DOMAIN rec.m = RecommendationKeys
               /\ rec.m.action = Str("HOLD")
               /\ rec.m.ai_score = Num(Whole(5))
               /\ rec.m.key_catalysts = EmptyList
               /\ rec.m.risk_factors = EmptyList
               /\ IsObj(story) /\ DOMAIN story.m = StoryKeys
               /\ story.m.use_cases = EmptyList
               /\ story.m.opportunities = EmptyList
               /\ story.m.competitive_advantages = EmptyList
        /\ result.out.v.ai_metrics = Obj([ai_revenue_exposure |-> Num(0),
                                          ai_partnerships |-> Num(0),
                                          ai_patents |-> Num(0),
                                          ai_investment_score |-> Num(Whole(5))])
        /\ llm_calls = <<>>

\* an invocation given None as company_info has returned
C17_Witness ==
    /\ Ended("analyze_ai_potential")
    /\ call.company_info = Null
    /\ ~result.out.exc
    /\ result.out.v.investment_recommendation.m.action = Str("HOLD")
    /\ llm_calls = <<>>

\* C18: every user prompt handed to the LLM collaborator is pure ASCII, in
\* the four LLM-calling stages (AI-strategy, investment-recommendation,
\* AI-story, 401k-benefits), also when the company name has non-ASCII
\* characters.
C18_PromptsAscii ==
    \A i \in 1..Len(llm_calls) :
        LET prompt == user_prompt(llm_calls[i].stage) IN
            \A j \in 1..Len(prompt.cp) : prompt.cp[j] <= MaxAscii

\* the place of a stage of analyze_ai_potential in the order of line 105-115
Rank(stage) ==
    CASE stage = "strategy" -> 1
      [] stage = "recommendation" -> 2
      [] stage = "story" -> 3
      [] OTHER -> 0

\* the position an invocation is at when the stage runs
StagePosition(stage) ==
    CASE stage = "strategy" -> "strategy"
      [] stage = "recommendation" -> "recommend"
      [] stage = "story" -> "story"
      [] OTHER -> "k401_benefits"

\* C19: within one analyze_ai_potential invocation the LLM calls are
\* sequential and never retried: each of the three stages issues at most one
\* call, in the order strategy, recommendation, story (so at most three), and
\* a call is issued only by the step of its own stage, which the invocation
\* reaches after the stage before has returned.
C19_SequentialNoRetry ==
    /\ [](\A i, j \in 1..Len(llm_calls) :
            i < j /\ Rank(llm_calls[i].stage) > 0
                => Rank(llm_calls[i].stage) < Rank(llm_calls[j].stage))
    /\ [](pc \in {"prepare", "strategy", "recommend", "metrics", "story", "assemble"}
            => Len(llm_calls) <= 3)
    /\ [][llm_calls' # llm_calls /\ llm_calls' # <<>> =>
            /\ Len(llm_calls') = Len(llm_calls) + 1
            /\ SubSeq(llm_calls', 1, Len(llm_calls)) = llm_calls
            /\ pc = StagePosition(llm_calls'[Len(llm_calls')].stage)
            /\ pc' # pc]_vars

\* an invocation has returned after its three calls
C19_Witness ==
    /\ Ended("analyze_ai_potential")
    /\ Len(llm_calls) = 3
    /\ llm_calls[1].stage = "strategy"
    /\ llm_calls[2].stage = "recommendation"
    /\ llm_calls[3].stage = "story"

\* C20: whenever the AI-strategy stage fails (its LLM call raises, or the
\* response is malformed and cannot be parsed), the stage's output is the
\* fixed fallback object (six empty lists, ai_maturity_score 5, the fixed
\* overall_assessment), and the pipeline continues: the recommendation,
\* metrics and story stages run on that output and the invocation returns.
C20_StrategyFailureIsFallback ==
    Got("strategy", {"raise", "malformed"}) =>
        /\ call.ai_strategy_analysis = Obj([
              ai_initiatives |-> EmptyList,
              competitive_advantages |-> EmptyList,
              revenue_streams |-> EmptyList,
              partnerships |-> EmptyList,
              opportunities |-> EmptyList,
              risks |-> EmptyList,
              ai_maturity_score |-> Num(Whole(5)),
              overall_assessment |-> Str("Unable to complete AI analysis at this time.")])
        /\ pc \in {"recommend", "metrics", "story", "assemble", "idle"}
        /\ Ended("analyze_ai_potential") =>
              /\ ~result.out.exc
              /\ result.out.v.ai_metrics =
                     calculate_ai_metrics(call.company_context, call.ai_strategy_analysis)
              /\ result.out.v.investment_recommendation = call.investment_recommendation
              /\ result.out.v.ai_story = call.ai_story

\* the contexts _prepare_company_context can build whose sector is the given
\* one: they differ in symbol, name, industry, summary, market cap, ...
ContextsOfSector(sector) ==
    {c \in {prepare_company_context(s, ci).v :
                s \in Symbols, ci \in {x \in CompanyInfos : IsObj(x)}} :
        c.m.sector = sector}

\* C21: the local metrics derivation makes no LLM call and is a function of
\* the company sector and the AI-strategy stage output only: the ai_metrics
\* of an invocation are what the derivation gives for any other context of
\* the same sector and the same strategy output, the recommendation and
\* story stages (whatever their LLM calls got) leave them as they are, and
\* they are the ai_metrics of the result.
C21_MetricsOfSectorAndStrategy ==
    /\ [](call.ai_metrics # Null =>
            /\ \A ctx \in ContextsOfSector(call.company_context.m.sector) :
                  calculate_ai_metrics(ctx, call.ai_strategy_analysis) = call.ai_metrics
            /\ Ended("analyze_ai_potential") =>
                  /\ ~result.out.exc
                  /\ result.out.v.ai_metrics = call.ai_metrics)
    /\ [][pc = "metrics" => llm_calls' = llm_calls /\ call'.ai_metrics # Null]_vars
    /\ [][call.ai_metrics # Null /\ pc \in {"story", "assemble"} =>
            /\ call'.ai_metrics = call.ai_metrics
            /\ call'.ai_strategy_analysis = call.ai_strategy_analysis
            /\ call'.company_context = call.company_context]_vars

\* an invocation whose strategy answer had score 8 and two partnerships has
\* returned; its recommendation call raised and its story call was answered
C21_Witness ==
    /\ Ended("analyze_ai_potential")
    /\ Got("recommendation", {"raise"})
    /\ Got("story", {"json"})
    /\ call.ai_metrics # Null
    /\ Cardinality(ContextsOfSector(call.company_context.m.sector)) > 1
    /\ result.out.v.ai_metrics.m.ai_patents = Num(Whole(90))

\* the step with which the stock analysis a handler started returns to it
StockAnalysisCompletes ==
    /\ caller = "app"
    /\ pc \in {"prepare", "assemble"}
    /\ pc' = "idle"

\* C22: session caching is last-result-wins.  The session starts with no
\* stored values; the step that completes a stock analysis overwrites
\* stock_data and analysis_data with the market data and the analysis of
\* that run; every other step (the button not pressed, an empty symbol, an
\* invalid symbol, the analyzer construction raising, a run in progress)
\* leaves both as they were.  So the stored values are always those of the
\* most recent completed analysis, or None if there was none.
C22_LastResultWins ==
    /\ session.stock_data = Null /\ session.analysis_data = Null
    /\ [][IF StockAnalysisCompletes
          THEN /\ result'.method = "analyze_ai_potential"
               /\ ~result'.out.exc
               /\ session'.stock_data = get_stock_data(call.ticker)
               /\ session'.analysis_data = result'.out.v
               /\ result'.out.v.analysis_timestamp = Timestamp(clock)
          ELSE /\ session'.stock_data = session.stock_data
               /\ session'.analysis_data = session.analysis_data]_vars
    /\ [](Ended("analyze_ai_potential") /\ caller = "app" =>
            /\ session.stock_data = call.stock_data
            /\ session.analysis_data = result.out.v)

\* after an analysis completed at tick 1, an attempt with an invalid symbol
\* has been made: the values stored are still those of that analysis
C22_Witness ==
    /\ pc = "idle"
    /\ error = InvalidSymbolError
    /\ session.stock_data # Null
    /\ session.analysis_data # Null
    /\ session.analysis_data.analysis_timestamp = Timestamp(1)

ContextKeys == {"symbol", "name", "sector", "industry", "business_summary",
                "market_cap", "employees", "revenue", "website", "country"}

\* the company_info key a context field is read from
InfoKey(field) ==
    CASE field = "name" -> "longName"
      [] field = "business_summary" -> "longBusinessSummary"
      [] field = "market_cap" -> "marketCap"
      [] field = "employees" -> "fullTimeEmployees"
      [] field = "revenue" -> "totalRevenue"
      [] OTHER -> field

TextFields == {"name", "sector", "industry", "business_summary", "website", "country"}
NumericFields == {"market_cap", "employees", "revenue"}

\* the context has the ten fields, the symbol is the argument, a field
\* present in company_info is passed on, and an absent field of the given
\* ones has the default documented for its kind
ContextDefaults(text_fields, numeric_fields) ==
    call.company_context # Null /\ call.helper = "none" =>
        LET ctx == call.company_context.m
            info == call.company_info.m
        IN  /\ DOMAIN ctx = ContextKeys
            /\ ctx.symbol = call.symbol
            /\ \A f \in TextFields \cup NumericFields :
                  InfoKey(f) \in DOMAIN info => ctx[f] = info[InfoKey(f)]
            /\ \A f \in text_fields :
                  InfoKey(f) \notin DOMAIN info => ctx[f] = Str("Unknown")
            /\ \A f \in numeric_fields :
                  InfoKey(f) \notin DOMAIN info => ctx[f] = Num(0)

\* C23: context preparation builds a context with all ten fields for every
\* company_info mapping, and each field absent from company_info defaults to
\* "Unknown" if it is a text field (name, sector, industry, business_summary,
\* website, country) and to 0 if it is numeric (market_cap, employees,
\* revenue).
C23_ContextDefaults == ContextDefaults(TextFields, NumericFields)

\* the same for the fields other than business_summary and website
C23_OtherFieldsDefault ==
    ContextDefaults(TextFields \ {"business_summary", "website"}, NumericFields)

\* the text of the strategy prompt before the business summary, as sent
BeforeSummary(ctx) ==
    sanitize_text(Chars(
        TemplateText \o sanitize_text(ctx.m.name).cp \o PyStr(ctx.m.symbol)
        \o sanitize_text(ctx.m.sector).cp \o sanitize_text(ctx.m.industry).cp)).cp

\* the text of the strategy prompt after the business summary
AfterSummary(ctx) ==
    PyStr(ctx.m.market_cap) \o PyStr(ctx.m.employees) \o TemplateText

\* C24: the business summary interpolated into the AI-strategy prompt is at
\* most 1000 characters long for every input summary, and the cut is
\* applied to the sanitized text: in the prompt sent, what stands between
\* the text before the summary and the text after it is the first 1000
\* characters of the sanitized summary, or all of them when there are fewer.
C24_SummaryCut ==
    CallsOf("strategy") # {} =>
        LET ctx == call.company_context
            sanitized == sanitize_text(ctx.m.business_summary).cp
            n == Min(Len(sanitized), SummaryLimit)
            prompt == user_prompt("strategy").cp
            before == BeforeSummary(ctx)
            after == AfterSummary(ctx)
        IN  /\ Len(prompt) = Len(before) + n + Len(after)
            /\ Len(prompt) - Len(before) - Len(after) <= 1000
            /\ SubSeq(prompt, 1, Len(before)) = before
            /\ SubSeq(prompt, Len(before) + 1, Len(before) + n) = SubSeq(sanitized, 1, n)
            /\ SubSeq(prompt, Len(before) + n + 1, Len(prompt)) = after

\* the strategy call was issued for a summary of fewer than 1000 characters
\* whose sanitized form has more (character 1000 is the 5 inside an escape
\* \u65e5)
C24_Witness ==
    /\ CallsOf("strategy") # {}
    /\ call.company_context.m.business_summary.t = "chars"
    /\ Len(call.company_context.m.business_summary.cp) < SummaryLimit
    /\ Len(sanitize_text(call.company_context.m.business_summary).cp) > SummaryLimit
    /\ sanitize_text(call.company_context.m.business_summary).cp[SummaryLimit] = 53

\* the AI-strategy stage of the invocation is over
StrategyReturned == pc \in {"recommend", "metrics", "story", "assemble"}
                    \/ (Ended("analyze_ai_potential") /\ call.company_context # Null)

\* its LLM call got an empty response: {} or a text that cannot be parsed
StrategyResponseEmpty ==
    /\ StrategyReturned
    /\ Got("strategy", {"json", "parsed", "malformed", "absent"})
    /\ call.ai_strategy_analysis = EmptyDict

\* its LLM call raised
StrategyCallFailed == StrategyReturned /\ Got("strategy", {"raise"})

\* what the metrics are after an empty or failed strategy stage
MetricsOfNoStrategy(sector) == Obj([
    ai_revenue_exposure |-> Num(Min(Whole(100), TableMultiplier(sector) * 100)),
    ai_partnerships |-> Num(0),
    ai_patents |-> Num(Whole(50)),
    ai_investment_score |-> Num(Whole(5))])

\* C25: an empty AI-strategy response ({} or unparseable text) is
\* indistinguishable downstream from a raised failure.  In both cases, for
\* every sector (a text or None), the ai_metrics are ai_investment_score 5,
\* ai_partnerships 0, ai_patents 50 and ai_revenue_exposure
\* min(100, sector_multiplier * 10), they are those of the final result, and
\* the recommendation and story prompts sent are the ones built from score 5
\* and empty lists: the prompt for {} and the prompt for the fallback object
\* are the same text.
C25_EmptyAsFailure ==
    StrategyResponseEmpty \/ StrategyCallFailed =>
        LET ctx == call.company_context
            st == call.ai_strategy_analysis
        IN  /\ StrategyCallFailed => st = StrategyFallback
            /\ calculate_ai_metrics(ctx, EmptyDict)
                   = calculate_ai_metrics(ctx, StrategyFallback)
            /\ call.ai_metrics # Null =>
                  /\ call.ai_metrics = calculate_ai_metrics(ctx, EmptyDict)
                  /\ ctx.m.sector.t \in {"str", "null"} =>
                        call.ai_metrics = MetricsOfNoStrategy(ctx.m.sector)
            /\ Ended("analyze_ai_potential") =>
                  /\ ~result.out.exc
                  /\ result.out.v.ai_metrics = call.ai_metrics
            /\ CallsOf("recommendation") # {} =>
                  /\ user_prompt("recommendation") = recommendation_prompt(ctx, EmptyDict)
                  /\ user_prompt("recommendation")
                         = recommendation_prompt(ctx, StrategyFallback)
            /\ CallsOf("story") # {} =>
                  /\ user_prompt("story") = story_prompt(ctx, EmptyDict)
                  /\ user_prompt("story") = story_prompt(ctx, StrategyFallback)

\* an invocation for a Technology company whose strategy answer could not be
\* parsed has returned after its three calls, with exposure 15 and 50 patents
C25_Witness ==
    /\ Ended("analyze_ai_potential")
    /\ StrategyResponseEmpty
    /\ Got("strategy", {"malformed"})
    /\ Len(llm_calls) = 3
    /\ call.company_context.m.sector = Str("Technology")
    /\ result.out.v.ai_metrics = Obj([
          ai_revenue_exposure |-> Num(Whole(15)),
          ai_partnerships |-> Num(0),
          ai_patents |-> Num(Whole(50)),
          ai_investment_score |-> Num(Whole(5))])

\* the market data d and the analysis a are those of the run in call: d is
\* what the fetcher returned for the symbol typed in, and a is the analysis
\* that run made of that symbol with the company info of d
OfThisRun(d, a) ==
    /\ d = call.stock_data
    /\ d # Null
    /\ d = get_stock_data(call.ticker)
    /\ d.m.info = call.company_info
    /\ call.company_context = prepare_company_context(call.symbol, d.m.info).v
    /\ a = AnalysisResult(call.investment_recommendation, call.ai_metrics,
                          call.ai_story, a.analysis_timestamp.at)

\* C26: in every reachable session state the stored stock_data and
\* analysis_data are either both None or both set, and they are set by one
\* completed run: a step that changes one of them sets both, to the market
\* data and the analysis of the same run (same symbol), so no sequence of
\* attempts leaves the analysis of one symbol next to the market data of
\* another.
C26_StoredPairOfOneRun ==
    /\ [](/\ (session.stock_data = Null) <=> (session.analysis_data = Null)
          /\ session.stock_data # Null =>
                /\ IsObj(session.stock_data)
                /\ "info" \in DOMAIN session.stock_data.m
                /\ DOMAIN session.analysis_data = AnalysisKeys)
    /\ [][(session'.stock_data # session.stock_data
           \/ session'.analysis_data # session.analysis_data) =>
              /\ caller = "app"
              /\ Ended("analyze_ai_potential")'
              /\ OfThisRun(session'.stock_data, session'.analysis_data)
              /\ session'.analysis_data = result'.out.v]_vars
    /\ [](Ended("analyze_ai_potential") /\ caller = "app" =>
            OfThisRun(session.stock_data, session.analysis_data))

\* two stock analyses have completed, the second of AAPL: the pair stored is
\* the market data and the analysis of AAPL
C26_Witness ==
    /\ Ended("analyze_ai_potential")
    /\ caller = "app"
    /\ clock = 2
    /\ session.k401 = Null
    /\ call.symbol = Str("AAPL")
    /\ session.stock_data.m.info = InfoAAPL
    /\ session.analysis_data.analysis_timestamp = Timestamp(1)
    /\ session.analysis_data.ai_metrics = call.ai_metrics

\* the positions of a run of each mode
StockPositions == {"prepare", "strategy", "recommend", "metrics", "story", "assemble"}
Positions401k == {"k401_benefits", "k401_assemble"}

\* C27: the two modes do not interfere in session state.  A step of a 401k
\* analysis (its start, its LLM call, its end, successful or failed) leaves
\* stock_data and analysis_data as they are; a step of a stock analysis
\* leaves 401k_analysis_data as it is; an attempt of either mode that starts
\* no analysis changes nothing; and 401k_analysis_data changes only when a
\* 401k analysis completes, to the company name of that run together with
\* the analysis that run returned.
C27_ModesDoNotInterfere ==
    /\ [][(pc \in Positions401k \/ pc' \in Positions401k) =>
              /\ session'.stock_data = session.stock_data
              /\ session'.analysis_data = session.analysis_data]_vars
    /\ [][(pc \in StockPositions \/ pc' \in StockPositions) =>
              session'.k401 = session.k401]_vars
    /\ [][pc = "idle" /\ pc' = "idle" => session' = session]_vars
    /\ [][session'.k401 # session.k401 =>
              /\ pc = "k401_assemble"
              /\ Ended("analyze_company_401k")'
              /\ ~result'.out.exc
              /\ session'.k401 = [company_name |-> call.company_name,
                                  analysis |-> result'.out.v]
              /\ call' = call]_vars

\* a 401k analysis has completed in a session that holds the results of a
\* stock analysis made at tick 0: both are stored
C27_Witness ==
    /\ Ended("analyze_company_401k")
    /\ caller = "app"
    /\ session.k401 = [company_name |-> call.company_name, analysis |-> result.out.v]
    /\ session.stock_data # Null
    /\ session.analysis_data # Null
    /\ session.analysis_data.analysis_timestamp = Timestamp(0)

\* the strategy call of the invocation was answered with a JSON text that
\* decodes to a non-empty value of one of the given Python types
StrategyDecodedTo(types) ==
    \E c \in CallsOf("strategy") : c.how = "json" /\ c.truthy /\ c.decoded \in types

\* the result consists of the per-stage fallbacks, and no LLM call was
\* issued after the strategy call
AllStageFallbacks ==
    /\ ~result.out.exc
    /\ DOMAIN result.out.v = AnalysisKeys
    /\ LET rec == result.out.v.investment_recommendation IN
          /\ IsObj(rec) /\ DOMAIN rec.m = RecommendationKeys
          /\ rec.m.action = Str("HOLD")
          /\ rec.m.ai_score = Num(Whole(5))
          /\ rec.m.reasoning = Str("Unable to complete investment analysis at this time.")
    /\ result.out.v.ai_metrics = Obj([ai_revenue_exposure |-> Num(0),
                                      ai_partnerships |-> Num(0),
                                      ai_patents |-> Num(0),
                                      ai_investment_score |-> Num(Whole(5))])
    /\ LET story == result.out.v.ai_story IN
          /\ IsObj(story) /\ DOMAIN story.m = StoryKeys
          /\ story.m.strategy_summary
                 = Str("AI strategy analysis not available at this time.")
          /\ story.m.use_cases = EmptyList
    /\ Len(llm_calls) = 1
    /\ llm_calls[1].stage = "strategy"

\* C28 as stated: when the AI-strategy response decodes to a non-empty JSON
\* value that is not a mapping (an array, a string or a number), the
\* pipeline completes without raising and the result consists of the
\* per-stage fallbacks (HOLD with ai_score 5; exposure 0, partnerships 0,
\* patents 0, score 5; the fallback story), no LLM call being issued after
\* the strategy call.
C28_NonMappingAllFallbacks ==
    Ended("analyze_ai_potential") /\ StrategyDecodedTo({"list", "str", "num"}) =>
        AllStageFallbacks

\* C28, amended: the pipeline completes without raising in every such case.
\* For a non-empty array or string the stage output is that value, the
\* later stages fail on it while building their prompts, and the result
\* consists of the per-stage fallbacks with no LLM call after the strategy
\* call.  For a non-zero number (or true) the strategy stage itself fails
\* after its call, its output is the fixed strategy fallback, and the
\* pipeline goes on as after a raised failure: the recommendation and story
\* calls are issued, their answers are the recommendation and the story of
\* the result, and the metrics are those of score 5 and empty lists (50
\* patents, exposure min(100, sector_multiplier * 10)).
C28_NonMappingByType ==
    Ended("analyze_ai_potential") =>
        /\ StrategyDecodedTo({"list", "str", "num", "bool"}) =>
              ~result.out.exc /\ DOMAIN result.out.v = AnalysisKeys
        /\ StrategyDecodedTo({"list", "str"}) =>
              /\ call.ai_strategy_analysis.t \in {"list", "str"}
              /\ AllStageFallbacks
        /\ StrategyDecodedTo({"num", "bool"}) =>
              /\ call.ai_strategy_analysis = StrategyFallback
              /\ Len(llm_calls) = 3
              /\ llm_calls[2].stage = "recommendation"
              /\ llm_calls[3].stage = "story"
              /\ result.out.v.investment_recommendation = call.investment_recommendation
              /\ result.out.v.ai_story = call.ai_story
              /\ result.out.v.ai_metrics
                     = calculate_ai_metrics(call.company_context, StrategyFallback)
              /\ call.company_context.m.sector.t \in {"str", "null"} =>
                    result.out.v.ai_metrics
                        = MetricsOfNoStrategy(call.company_context.m.sector)

\* an invocation whose strategy answer was a number has returned: three
\* calls were issued, the recommendation is the BUY the second call got, and
\* the metrics carry 50 patents
C28_Witness ==
    /\ Ended("analyze_ai_potential")
    /\ StrategyDecodedTo({"num"})
    /\ Len(llm_calls) = 3
    /\ result.out.v.investment_recommendation = RecommendationObject("BUY", Whole(9))
    /\ result.out.v.ai_metrics.m.ai_patents = Num(Whole(50))

=============================================================================
